---- MODULE Spec2Model ----
(***************************************************************************)
(* Model of the cache runtime of the Pi player (rgsuhas/connect):          *)
(*   download_manager.py   needs_download, download_single_item,           *)
(*                         download_playlist_items, calculate_checksum     *)
(*   media_downloader.py   needs_download, download_one,                   *)
(*                         download_playlist_items, sha256_file            *)
(*   cleanup_old_cache.py  cleanup_old_cache_files                         *)
(*                                                                         *)
(* The cache directory is a partial function from paths to files.  A path  *)
(* is <<filename, suffix>>; the suffix is "" for the final path and        *)
(* ".tmp" / ".part" for the temp sibling a download writes to.  A file is  *)
(* a record: its data (a sequence of chunks, 0 standing for a hole left    *)
(* by a write past the end) and whether it can be opened for reading.      *)
(***************************************************************************)
EXTENDS Integers, Sequences, FiniteSets, TLC

VARIABLES
    dir,            \* config.MEDIA_CACHE_DIR: path -> file
    cache0,         \* the cache directory as it was before the batch started
    impl,           \* which module runs the batch: "dm" download_manager, "md" media_downloader
    items,          \* playlist_data["items"] of the running batch
    max_workers,    \* the pool size of the running batch
    tasks,          \* one record per submitted item: the worker's position and result
    main,           \* download_playlist_items itself: pc, results, summary, raised
    installs,       \* filename -> the tasks whose replace() installed the final path
    probe,          \* a caller of needs_download: the item and the answers it got
    playlist_file,  \* config.PLAYLIST_FILE: the active playlist document
    prune,          \* the last result of cleanup_old_cache_files
    mp,             \* the MediaPlayer object: its attributes
    thr,            \* the supervisor's threads: the playback thread and the main thread
    procs,          \* the child processes the supervisor spawned: pid -> process
    clock,          \* time.time(), counted from the moment no_playlist_since was taken
    feed,           \* the playlist documents still to be written to PLAYLIST_FILE
    playback_state, \* config.PLAYBACK_STATE_FILE: the playback-state document
    hist,           \* history of the walk: what was played last, what the last attempt did
    backup_file,    \* PLAYLIST_FILE.with_suffix('.json.backup'): the backup document
    swap,           \* history of fetch_and_save_backend_playlist: the calls, the last one's input and end
    pm,             \* the PlaylistManager object: its attributes
    downloads,      \* progress.downloads of download_manager: filename -> entry
    command,        \* a caller of get_player_command: its arguments and what came back
    srv,            \* pi_server: playlist_update_status, _download_lock and the POST requests
    bc              \* the BackendClient object: its attributes and its playlist worker

vars == <<dir, cache0, impl, items, max_workers, tasks, main, installs,
          probe, playlist_file, prune, mp, thr, procs, clock, feed, playback_state, hist,
          backup_file, swap, pm, downloads, command, srv, bc>>

fetchVars == <<cache0, impl, items, max_workers, tasks, main, installs>>
pruneVars == <<playlist_file, prune>>
playerVars == <<mp, thr, procs, clock, feed, playback_state, hist>>
storeVars == <<backup_file, swap, pm>>

-----------------------------------------------------------------------------
(* Bounds *)

\* chunks in the body a URL serves
NChunks == 2
\* items in a playlist
MaxItems == 2

-----------------------------------------------------------------------------
(* Values *)

\* config.MAX_CONCURRENT_DOWNLOADS
MAX_CONCURRENT_DOWNLOADS == 3

\* Python None / a missing key / "" for a string field: all falsy
NoStr == ""
\* Python None for a checksum (a digest is a non-empty tuple)
None == <<>>

Filenames == {"a", "b"}
Urls == {"u"}

\* the bytes the server sends for a URL, chunk by chunk
Body == [i \in 1..NChunks |-> i]
\* the bytes of an older version of a media file
Stale == <<9>>

\* hashlib: a digest is determined by the bytes and differs for different bytes
hexdigest(data) == <<"sha256", data>>

Checksums == {None, hexdigest(Body), hexdigest(Stale)}

Items == [filename : Filenames \cup {NoStr}, url : Urls \cup {NoStr}, checksum : Checksums]

File(data, readable) == [data |-> data, readable |-> readable]

\* Config.get_media_path: MEDIA_CACHE_DIR / filename
get_media_path(filename) == <<filename, "">>

\* Path.with_suffix(path.suffix + ext)
with_suffix(path, ext) == <<path[1], ext>>

exists(d, path) == path \in DOMAIN d

st_size(d, path) == Len(d[path].data)

\* Path.unlink(missing_ok=True)
unlink(d, path) == [q \in DOMAIN d \ {path} |-> d[q]]

\* Path.replace(target): rename over the target; the caller checks that src exists
replace(d, src, target) ==
    [q \in (DOMAIN d \ {src}) \cup {target} |-> IF q = target THEN d[src] ELSE d[q]]

\* open(path, 'wb'): create the file, or truncate the one that is there
open_wb(d, path) ==
    [q \in DOMAIN d \cup {path} |->
        IF q = path
        THEN IF path \in DOMAIN d THEN File(<<>>, d[path].readable) ELSE File(<<>>, TRUE)
        ELSE d[q]]

Max(x, y) == IF x >= y THEN x ELSE y

\* f.write(chunk) at offset k-1 of the open file
write_at(data, k, v) ==
    [i \in 1..Max(Len(data), k) |->
        IF i = k THEN v ELSE IF i <= Len(data) THEN data[i] ELSE 0]

-----------------------------------------------------------------------------
(* ChecksumVerifier *)

\* download_manager.calculate_checksum: the digest, or None on any exception
calculate_checksum(d, path) ==
    IF exists(d, path) /\ d[path].readable THEN hexdigest(d[path].data) ELSE None

\* media_downloader.sha256_file: the digest, or None on any exception
sha256_file(d, path) ==
    IF exists(d, path) /\ d[path].readable THEN hexdigest(d[path].data) ELSE None

-----------------------------------------------------------------------------
(* needs_download *)

Answer(needed, reason) == [needed |-> needed, reason |-> reason]

\* a plausible slip: the size check dropped
needs_download_no_size_check(item, d) ==
    LET cached_path == get_media_path(item.filename) IN
    IF item.filename = NoStr THEN Answer(FALSE, "missing filename")
    ELSE IF item.url = NoStr THEN Answer(FALSE, "missing url")
    ELSE IF ~exists(d, cached_path) THEN Answer(TRUE, "not cached")
    ELSE IF item.checksum # None
         THEN IF calculate_checksum(d, cached_path) # item.checksum
              THEN Answer(TRUE, "checksum mismatch")
              ELSE Answer(FALSE, "checksum valid")
         ELSE Answer(FALSE, "exists in cache")

\* download_manager.needs_download
needs_download(item, d) ==
    LET cached_path == get_media_path(item.filename) IN
    IF item.filename = NoStr THEN Answer(FALSE, "missing filename")
    ELSE IF item.url = NoStr THEN Answer(FALSE, "missing url")
    ELSE IF ~exists(d, cached_path) THEN Answer(TRUE, "not cached")
    ELSE IF st_size(d, cached_path) = 0 THEN Answer(TRUE, "empty file")
    ELSE IF item.checksum # None
         THEN IF calculate_checksum(d, cached_path) # item.checksum
              THEN Answer(TRUE, "checksum mismatch")
              ELSE Answer(FALSE, "checksum valid")
         ELSE Answer(FALSE, "exists in cache")

\* media_downloader.needs_download
md_needs_download(item, d) ==
    LET dest == get_media_path(item.filename) IN
    IF item.filename = NoStr THEN Answer(FALSE, "missing filename")
    ELSE IF ~exists(d, dest) THEN Answer(TRUE, "not cached")
    ELSE IF item.checksum # None
         THEN IF sha256_file(d, dest) # item.checksum
              THEN Answer(TRUE, "checksum mismatch")
              ELSE Answer(FALSE, "up-to-date")
         ELSE Answer(FALSE, "exists")

\* a plausible slip: a cached file found invalid is removed on the spot
needs_download_dir_unlinks(item, d) ==
    IF item.filename # NoStr /\ item.url # NoStr /\ needs_download(item, d).needed
    THEN unlink(d, get_media_path(item.filename))
    ELSE d

\* The cache directory after needs_download(item) (either module): the function
\* only calls exists(), stat() and open(path, 'rb')
needs_download_dir(item, d) == d

-----------------------------------------------------------------------------
(* Initial cache contents *)

\* what a final path can hold before a batch: nothing usable, the current
\* body, an older body, or an older body that cannot be read
InitialFiles == {File(<<>>, TRUE), File(Body, TRUE), File(Stale, TRUE), File(Stale, FALSE)}

FinalPaths == {get_media_path(f) : f \in Filenames}

InitialCaches == UNION {[S -> InitialFiles] : S \in SUBSET FinalPaths}

NoTasks == <<>>
IdleMain == [pc |-> "idle", results |-> <<>>, summary |-> [error |-> "not called"], raised |-> FALSE]
NoInstalls == [f \in Filenames |-> {}]
NoProbe == [item |-> [filename |-> NoStr, url |-> NoStr, checksum |-> None],
            n |-> 0, answers |-> <<>>, at |-> <<>>, mutated |-> FALSE]
NoPrune == [called |-> FALSE, dry_run |-> FALSE, deleted_files |-> {}, freed_bytes |-> 0,
            kept_files |-> {}, playlist_files |-> {}, before |-> <<>>]
NoPlaylistFile == [state |-> "missing", items |-> <<>>]

\* self.current_process = None
NoProc == 0
\* self.no_playlist_since = None
NoTime == -1
\* no index yet (history)
NoIndex == -1

\* MediaPlayer.__init__: the attributes of a fresh MediaPlayer
MediaPlayer ==
    [current_process |-> NoProc, playlist |-> <<>>, current_index |-> 0,
     should_stop |-> FALSE, playlist_version |-> NoStr, loop_enabled |-> TRUE,
     showing_default_screen |-> FALSE, no_playlist_since |-> NoTime]

\* a thread of the supervisor at pc; ret is where stop_current_player returns to, h
\* the process object a blocking call was made on, n the steps taken since
\* stop_current_player was entered
Thread(pc) == [pc |-> pc, ret |-> "", h |-> NoProc, n |-> 0]

\* MediaPlayer.update_playback_state(status, current_item): the document written
update_playback_state(m, status, current_item) ==
    [status |-> status, current_item |-> current_item,
     playlist_position |-> m.current_index,
     playlist_version |-> m.playlist_version,
     playlist_total |-> Len(m.playlist)]

NoHist == [last_played |-> NoIndex, skipped |-> FALSE,
           attempt |-> NoIndex, outcome |-> "",
           changed |-> FALSE, from |-> NoIndex, doc |-> NoPlaylistFile,
           ignored |-> FALSE, unread |-> FALSE]

\* no supervisor is running
NoPlayer ==
    /\ mp = MediaPlayer
    /\ thr = [player |-> Thread("off"), main |-> Thread("off")]
    /\ procs = <<>>
    /\ clock = 0
    /\ feed = <<>>
    /\ playback_state = update_playback_state(MediaPlayer, "starting", "Media player daemon starting")
    /\ hist = NoHist

\* PlaylistManager.__init__: the attributes of a fresh PlaylistManager; late tells
\* whether time.time() - startup_time has reached default_fallback_delay, returned
\* what the last call of ensure_playlist_available returned and found the state of
\* the active document when it was called
PlaylistManager ==
    [last_backend_check |-> NoTime, backend_available |-> FALSE,
     default_playlist_loaded |-> FALSE, current_playlist_source |-> NoStr,
     late |-> FALSE, returned |-> NoStr, found |-> NoStr]

NoSwap == [n |-> 0, new |-> NoPlaylistFile, end |-> "", before |-> NoPlaylistFile]

\* POST /playlist requests the server gets in a run
MaxPosts == 2

\* a request that was not sent; ran tells that its task ran download_playlist_items
NoRequest == [pc |-> "none", doc |-> NoPlaylistFile, ran |-> FALSE, prev |-> NoPlaylistFile]

\* pi_server at import: playlist_update_status, _download_lock free (0), no request
NoServer ==
    [updating |-> FALSE, last_error |-> NoStr, lock |-> 0,
     req |-> [r \in 1..MaxPosts |-> NoRequest]]

\* BackendClient.__init__: last_playlist_version is None; handoff is what became of
\* the last call of _update_local_playlist
BackendClient == [last_playlist_version |-> NoStr, handoff |-> NoStr]

\* get_player_command was not called
NoCommand ==
    [n |-> 0, media_path |-> [stem |-> "", suffix |-> ""],
     item |-> [duration |-> [type |-> "absent", v |-> 0, s |-> ""]],
     cmd |-> <<>>, raised |-> FALSE]

\* no playlist was fetched, no backup made, nothing downloaded in this process
NoStore ==
    /\ backup_file = NoPlaylistFile
    /\ swap = NoSwap
    /\ pm = PlaylistManager
    /\ downloads = <<>>
    /\ command = NoCommand
    /\ srv = NoServer
    /\ bc = BackendClient

-----------------------------------------------------------------------------
(* Specification SpecProbe: callers of needs_download on arbitrary items and  *)
(* cache contents, with the cache changing under them.                       *)

InitProbe ==
    /\ dir \in InitialCaches
    /\ cache0 = dir
    /\ impl \in {"dm", "md"}
    /\ items = <<>>
    /\ max_workers = MAX_CONCURRENT_DOWNLOADS
    /\ tasks = NoTasks
    /\ main = IdleMain
    /\ installs = NoInstalls
    /\ probe \in {[NoProbe EXCEPT !.item = it] : it \in Items}
    /\ playlist_file = NoPlaylistFile
    /\ prune = NoPrune
    /\ NoPlayer
    /\ NoStore

\* one call of needs_download(item) of the module under test
ProbeCall ==
    /\ probe.n < 2
    /\ LET answer == IF impl = "dm" THEN needs_download(probe.item, dir)
                     ELSE md_needs_download(probe.item, dir)
       IN probe' = [probe EXCEPT !.n = @ + 1,
                                 !.answers = Append(@, answer),
                                 !.at = Append(@, dir)]
    /\ dir' = needs_download_dir(probe.item, dir)
    /\ UNCHANGED <<fetchVars, pruneVars, playerVars, storeVars, downloads, command, srv, bc>>

\* between two calls another actor installs a downloaded file (temp_path.replace)
ProbeInstall ==
    /\ probe.n = 1 /\ ~probe.mutated
    /\ \E f \in Filenames :
          dir' = [q \in DOMAIN dir \cup {get_media_path(f)} |->
                     IF q = get_media_path(f) THEN File(Body, TRUE) ELSE dir[q]]
    /\ dir' # dir
    /\ probe' = [probe EXCEPT !.mutated = TRUE]
    /\ UNCHANGED <<fetchVars, pruneVars, playerVars, storeVars, downloads, command, srv, bc>>

\* between two calls another actor deletes a cached file (file_path.unlink)
ProbeUnlink ==
    /\ probe.n = 1 /\ ~probe.mutated
    /\ \E path \in DOMAIN dir : dir' = unlink(dir, path)
    /\ probe' = [probe EXCEPT !.mutated = TRUE]
    /\ UNCHANGED <<fetchVars, pruneVars, playerVars, storeVars, downloads, command, srv, bc>>

NextProbe == ProbeCall \/ ProbeInstall \/ ProbeUnlink

SpecProbe == InitProbe /\ [][NextProbe]_vars

-----------------------------------------------------------------------------
(* Claims checked under SpecProbe *)

\* what a caller learns: whether a download is needed, and why if it is
Class(answer) == IF answer.needed THEN answer.reason ELSE "not needed"

\* the decision order as the specification states it
StatedOrder(item, d) ==
    LET path == get_media_path(item.filename) IN
    IF item.filename = NoStr \/ item.url = NoStr THEN "not needed"
    ELSE IF ~exists(d, path) THEN "not cached"
    ELSE IF Len(d[path].data) = 0 THEN "empty file"
    ELSE IF item.checksum # None /\ (~d[path].readable \/ hexdigest(d[path].data) # item.checksum)
         THEN "checksum mismatch"
    ELSE "not needed"

\* the shorter order: neither the url nor the file size is looked at
ShortOrder(item, d) ==
    LET path == get_media_path(item.filename) IN
    IF item.filename = NoStr THEN "not needed"
    ELSE IF ~exists(d, path) THEN "not cached"
    ELSE IF item.checksum # None /\ (~d[path].readable \/ hexdigest(d[path].data) # item.checksum)
         THEN "checksum mismatch"
    ELSE "not needed"

-----------------------------------------------------------------------------
(* Batch download: download_playlist_items and its workers                   *)

NoFd == <<>>

Task(pc) == [pc |-> pc, k |-> 0, fd |-> NoFd, status |-> "unknown", reason |-> "",
             opened |-> FALSE, failed |-> FALSE, nd_failed |-> FALSE, verify_failed |-> FALSE]

\* a plausible slip: the download is written straight to the final path
temp_suffix_none == ""

\* the temp sibling a worker of the running module writes to
temp_suffix == IF impl = "dm" THEN ".tmp" ELSE ".part"
cached_path(i) == get_media_path(items[i].filename)
temp_path(i) == with_suffix(cached_path(i), temp_suffix)

InFlightPcs == {"get", "write", "verify", "replace", "finally"}
InFlight == {i \in DOMAIN tasks : tasks[i].pc \in InFlightPcs}
Finished == {i \in DOMAIN tasks : tasks[i].pc \in {"done", "raised"}}

\* a worker returns its result; the file it had open is closed
Return(t, status, reason) ==
    [t EXCEPT !.pc = "done", !.status = status, !.reason = reason, !.k = 0, !.fd = NoFd]

\* an exception leaves download_single_item / download_one and reaches future.result()
Raise(t) == [t EXCEPT !.pc = "raised", !.status = "raised", !.k = 0, !.fd = NoFd]

\* a plausible slip: only the network errors are caught
except_clause_request_only(exc) ==
    IF exc = "RequestException" THEN "network error" ELSE ""

\* download_single_item: which except clause takes an exception raised in the try
\* block, as the reason prefix it reports ("" when no clause takes it)
except_clause(exc) ==
    IF exc = "RequestException" THEN "network error" ELSE "unexpected error"

\* download_one: except Exception takes everything
md_except_clause(exc) == "exception"

\* open file descriptions follow their file: after rename(src, target) a file open
\* at src is the one at target, and the one that was at target has no name
fds_after_replace(ts, src, target) ==
    [j \in DOMAIN ts |->
        IF ts[j].fd = src THEN [ts[j] EXCEPT !.fd = target]
        ELSE IF ts[j].fd = target THEN [ts[j] EXCEPT !.fd = NoFd]
        ELSE ts[j]]

\* after unlink(path) a file open at path has no name
fds_after_unlink(ts, path) ==
    [j \in DOMAIN ts |-> IF ts[j].fd = path THEN [ts[j] EXCEPT !.fd = NoFd] ELSE ts[j]]

\* download_single_item's finally: if temp_path.exists(): temp_path.unlink(missing_ok=True)
finally_dir(d, i) == IF impl = "dm" THEN unlink(d, temp_path(i)) ELSE d
finally_fds(ts, i) == IF impl = "dm" THEN fds_after_unlink(ts, temp_path(i)) ELSE ts

\* ProgressTracker.start_download: the entry of filename is replaced by a new one
\* (start_time, speed and eta, which follow the wall clock, are left out)
start_download(filename, total_size) ==
    [f \in DOMAIN downloads \cup {filename} |->
        IF f = filename
        THEN [status |-> "downloading", total_bytes |-> total_size,
              downloaded_bytes |-> 0, error |-> NoStr]
        ELSE downloads[f]]

\* ProgressTracker.update_progress: only if filename in self.downloads
update_progress(filename, bytes_downloaded) ==
    IF filename \in DOMAIN downloads
    THEN [downloads EXCEPT ![filename].downloaded_bytes = bytes_downloaded]
    ELSE downloads

\* ProgressTracker.finish_download: only if filename in self.downloads; "error" is
\* set only if one is given (end_time and duration are left out)
finish_download(filename, status, error) ==
    IF filename \in DOMAIN downloads
    THEN [downloads EXCEPT ![filename].status = status,
                           ![filename].error = IF error # NoStr THEN error ELSE @]
    ELSE downloads

\* the status the except clauses of download_single_item pass to finish_download
except_status(exc) == IF exc = "RequestException" THEN "network_error" ELSE "error"

\* a worker fails with exception exc inside the try block: the except clause sets
\* the error result and (download_manager) the finally clause removes the temp file
Fail(i, exc) ==
    LET clause == IF impl = "dm" THEN except_clause(exc) ELSE md_except_clause(exc)
        t == IF clause = "" THEN Raise(tasks[i]) ELSE Return(tasks[i], "error", clause)
    IN /\ tasks' = finally_fds([tasks EXCEPT ![i] = [t EXCEPT !.failed = TRUE]], i)
       /\ dir' = finally_dir(dir, i)
       /\ downloads' = IF impl = "dm"
                       THEN finish_download(items[i].filename, except_status(exc), exc)
                       ELSE downloads

Count(results, status) == Cardinality({i \in DOMAIN results : results[i].status = status})

\* download_manager.download_playlist_items: the summary of the collected results
summary(results) ==
    [total_items |-> Len(items),
     downloaded |-> Count(results, "downloaded"),
     cached |-> Count(results, "cached"),
     errors |-> Count(results, "error")]

\* media_downloader.download_playlist_items: the summary ("errors" is the list of
\* the error results; its length is kept)
md_summary(results) ==
    [total_items |-> Len(items),
     downloaded |-> Count(results, "downloaded"),
     cached |-> Count(results, "ok"),
     errors |-> Count(results, "error")]

\* the max_workers argument of download_manager.download_playlist_items that callers pass
MaxPool == 1

\* the items of the playlists a batch is run on: every well-formed item, an item
\* without filename, and items without url (with and without checksum)
BatchItems ==
    {it \in Items : it.filename # NoStr /\ it.url # NoStr}
    \cup {[filename |-> NoStr, url |-> "u", checksum |-> None]}
    \cup {[filename |-> "a", url |-> NoStr, checksum |-> c] : c \in {None, hexdigest(Body)}}

Playlists == UNION {[1..n -> BatchItems] : n \in 0..MaxItems}

\* the cache before a batch: any initial file at a's path; b's file absent or current
BatchCaches ==
    {c \in InitialCaches :
        exists(c, get_media_path("b")) => c[get_media_path("b")] = File(Body, TRUE)}

InitFetch ==
    /\ dir \in BatchCaches
    /\ cache0 = dir
    /\ impl = "dm"
    /\ items = <<>>
    /\ max_workers = MAX_CONCURRENT_DOWNLOADS
    /\ tasks = NoTasks
    /\ main = IdleMain
    /\ installs = NoInstalls
    /\ probe = NoProbe
    /\ playlist_file = NoPlaylistFile
    /\ prune = NoPrune
    /\ NoPlayer
    /\ NoStore

\* download_manager.download_playlist_items(playlist_data, max_workers) is called:
\* no items -> the error dict; else every item is submitted to the pool
download_playlist_items ==
    /\ main.pc = "idle"
    /\ \E pl \in Playlists, mw \in (1..MaxPool) \cup {MAX_CONCURRENT_DOWNLOADS} :
          /\ impl' = "dm"
          /\ items' = pl
          /\ max_workers' = mw
          /\ IF pl = <<>>
             THEN /\ main' = [main EXCEPT !.pc = "returned",
                                          !.summary = [error |-> "no items in playlist"]]
                  /\ tasks' = NoTasks
             ELSE /\ main' = [main EXCEPT !.pc = "collecting"]
                  /\ tasks' = [i \in DOMAIN pl |-> Task("queued")]
    /\ UNCHANGED <<dir, cache0, installs, probe, pruneVars, playerVars, storeVars, downloads, command, srv, bc>>

\* media_downloader.download_playlist_items(playlist): every item is submitted to a
\* pool of config.MAX_CONCURRENT_DOWNLOADS workers
md_download_playlist_items ==
    /\ main.pc = "idle"
    /\ \E pl \in Playlists :
          /\ impl' = "md"
          /\ items' = pl
          /\ max_workers' = MAX_CONCURRENT_DOWNLOADS
          /\ main' = [main EXCEPT !.pc = "collecting"]
          /\ tasks' = [i \in DOMAIN pl |-> Task("queued")]
    /\ UNCHANGED <<dir, cache0, installs, probe, pruneVars, playerVars, storeVars, downloads, command, srv, bc>>

\* a plausible slip: one thread per submitted item
pool_can_start_unbounded(i) ==
    /\ tasks[i].pc = "queued"
    /\ \A j \in 1..(i - 1) : tasks[j].pc # "queued"

\* ThreadPoolExecutor: at most max_workers threads, each running one submitted call
\* at a time, taken from the queue in submission order
pool_can_start(i) ==
    /\ tasks[i].pc = "queued"
    /\ \A j \in 1..(i - 1) : tasks[j].pc # "queued"
    /\ Cardinality(InFlight) < max_workers

\* download_single_item, up to the decision of needs_download
dm_start(i) ==
    /\ impl = "dm" /\ main.pc = "collecting"
    /\ pool_can_start(i)
    /\ LET item == items[i]
           nd == needs_download(item, dir)
           path == get_media_path(item.filename)
           \* calculate_checksum was called and returned None
           nofile == /\ item.filename # NoStr /\ item.url # NoStr /\ item.checksum # None
                     /\ exists(dir, path) /\ st_size(dir, path) > 0
                     /\ calculate_checksum(dir, path) = None
           t == [tasks[i] EXCEPT !.nd_failed = nofile]
       IN /\ tasks' = [tasks EXCEPT ![i] =
                IF ~nd.needed THEN Return(t, "cached", nd.reason)
                ELSE IF item.url = NoStr
                     THEN Return([t EXCEPT !.failed = TRUE], "error", "missing url")
                ELSE [t EXCEPT !.pc = "get"]]
          /\ dir' = needs_download_dir(item, dir)
    /\ UNCHANGED <<cache0, impl, items, max_workers, main, installs, probe, pruneVars, playerVars, storeVars, downloads, command, srv, bc>>

\* download_one, up to the decision of needs_download
md_start(i) ==
    /\ impl = "md" /\ main.pc = "collecting"
    /\ pool_can_start(i)
    /\ LET item == items[i]
           nd == md_needs_download(item, dir)
           path == get_media_path(item.filename)
           \* sha256_file was called and returned None
           nofile == /\ item.filename # NoStr /\ item.checksum # None
                     /\ exists(dir, path) /\ sha256_file(dir, path) = None
           t == [tasks[i] EXCEPT !.nd_failed = nofile]
       IN /\ tasks' = [tasks EXCEPT ![i] =
                IF ~nd.needed THEN Return(t, "ok", nd.reason)
                ELSE IF item.url = NoStr \/ item.filename = NoStr
                     THEN Return([t EXCEPT !.failed = TRUE], "error", "missing url or filename")
                ELSE [t EXCEPT !.pc = "get"]]
          /\ dir' = needs_download_dir(item, dir)
    /\ UNCHANGED <<cache0, impl, items, max_workers, main, installs, probe, pruneVars, playerVars, storeVars, downloads, command, srv, bc>>

\* session.get(url, stream=True) and raise_for_status() succeed; the worker opens
\* its temp file with open(temp_path, 'wb')
get_ok(i) ==
    /\ main.pc = "collecting" /\ tasks[i].pc = "get"
    /\ dir' = open_wb(dir, temp_path(i))
    /\ tasks' = [tasks EXCEPT ![i] = [@ EXCEPT !.pc = "write", !.k = 0,
                                               !.fd = temp_path(i), !.opened = TRUE]]
    \* total_size = int(response.headers.get('content-length', 0))
    /\ downloads' = IF impl = "dm" THEN start_download(items[i].filename, NChunks)
                    ELSE downloads
    /\ UNCHANGED <<cache0, impl, items, max_workers, main, installs, probe, pruneVars, playerVars, storeVars, command, srv, bc>>

\* session.get / raise_for_status raises (bad URL, no connection, HTTP error)
get_fail(i) ==
    /\ main.pc = "collecting" /\ tasks[i].pc = "get"
    /\ Fail(i, "RequestException")
    /\ UNCHANGED <<cache0, impl, items, max_workers, main, installs, probe, pruneVars, playerVars, storeVars, command, srv, bc>>

\* the pc after the last chunk: the with-block closes the file; the checksum is
\* verified only if the item has one
after_write(i) == IF items[i].checksum # None THEN "verify" ELSE "replace"

\* one iteration of iter_content: f.write(chunk)
write_chunk(i) ==
    /\ main.pc = "collecting" /\ tasks[i].pc = "write"
    /\ LET t == tasks[i]
           k == t.k + 1
           last == k = NChunks
       IN /\ dir' = IF t.fd = NoFd THEN dir
                    ELSE [dir EXCEPT ![t.fd].data = write_at(@, k, Body[k])]
          /\ tasks' = [tasks EXCEPT ![i] =
                IF last THEN [t EXCEPT !.pc = after_write(i), !.k = 0, !.fd = NoFd]
                ELSE [t EXCEPT !.k = k]]
    /\ downloads' = IF impl = "dm"
                    THEN update_progress(items[i].filename, tasks[i].k + 1)
                    ELSE downloads
    /\ UNCHANGED <<cache0, impl, items, max_workers, main, installs, probe, pruneVars, playerVars, storeVars, command, srv, bc>>

\* iter_content raises in the middle of the transfer
write_fail(i) ==
    /\ main.pc = "collecting" /\ tasks[i].pc = "write"
    /\ Fail(i, "RequestException")
    /\ UNCHANGED <<cache0, impl, items, max_workers, main, installs, probe, pruneVars, playerVars, storeVars, command, srv, bc>>

\* the digest the worker computes of its temp file
temp_digest(i) ==
    IF impl = "dm" THEN calculate_checksum(dir, temp_path(i)) ELSE sha256_file(dir, temp_path(i))

\* a plausible slip: a digest that could not be computed is not held against the file
verified_unless_none(actual, expected) == actual = expected \/ actual = None

\* does the worker accept its temp file? (if actual_checksum != expected_checksum: reject)
verified(actual, expected) == actual = expected

\* "Verify checksum if provided"
verify(i) ==
    /\ main.pc = "collecting" /\ tasks[i].pc = "verify"
    /\ LET actual == temp_digest(i)
           t == [tasks[i] EXCEPT !.verify_failed = (actual = None)]
       IN IF verified(actual, items[i].checksum)
          THEN /\ tasks' = [tasks EXCEPT ![i] = [t EXCEPT !.pc = "replace"]]
               /\ dir' = dir
          ELSE \* temp_path.unlink(missing_ok=True); return result
               /\ dir' = unlink(dir, temp_path(i))
               /\ tasks' = fds_after_unlink(
                    [tasks EXCEPT ![i] =
                        IF impl = "dm"
                        THEN [t EXCEPT !.pc = "finally", !.status = "error", !.failed = TRUE,
                                       !.reason = "checksum verification failed"]
                        ELSE Return([t EXCEPT !.failed = TRUE], "error",
                                    "checksum verify failed")],
                    temp_path(i))
    /\ downloads' = IF impl = "dm" /\ ~verified(temp_digest(i), items[i].checksum)
                    THEN finish_download(items[i].filename, "checksum_failed",
                                         "checksum verification failed")
                    ELSE downloads
    /\ UNCHANGED <<cache0, impl, items, max_workers, main, installs, probe, pruneVars, playerVars, storeVars, command, srv, bc>>

\* the path the finished download is moved to
install_target(i) == cached_path(i)

\* temp_path.replace(cached_path)
install(i) ==
    /\ main.pc = "collecting" /\ tasks[i].pc = "replace"
    /\ exists(dir, temp_path(i))
    /\ dir' = replace(dir, temp_path(i), install_target(i))
    /\ tasks' = fds_after_replace(
            [tasks EXCEPT ![i] =
                IF impl = "dm"
                THEN [@ EXCEPT !.pc = "finally", !.status = "downloaded",
                               !.reason = "successfully downloaded"]
                ELSE Return(@, "downloaded", "")],
            temp_path(i), install_target(i))
    /\ installs' = [installs EXCEPT ![items[i].filename] = @ \cup {i}]
    /\ downloads' = IF impl = "dm"
                    THEN finish_download(items[i].filename, "completed", NoStr)
                    ELSE downloads
    /\ UNCHANGED <<cache0, impl, items, max_workers, main, probe, pruneVars, playerVars, storeVars, command, srv, bc>>

\* temp_path.replace(cached_path) raises FileNotFoundError: the temp file is gone
install_fail(i) ==
    /\ main.pc = "collecting" /\ tasks[i].pc = "replace"
    /\ ~exists(dir, temp_path(i))
    /\ Fail(i, "FileNotFoundError")
    /\ UNCHANGED <<cache0, impl, items, max_workers, main, installs, probe, pruneVars, playerVars, storeVars, command, srv, bc>>

\* download_single_item returns through its finally clause
dm_finally(i) ==
    /\ main.pc = "collecting" /\ tasks[i].pc = "finally"
    /\ dir' = finally_dir(dir, i)
    /\ tasks' = finally_fds([tasks EXCEPT ![i] = Return(@, @.status, @.reason)], i)
    /\ UNCHANGED <<cache0, impl, items, max_workers, main, installs, probe, pruneVars, playerVars, storeVars, downloads, command, srv, bc>>

\* every future has completed: future.result() re-raises what a worker raised,
\* else the results are counted into the summary
collect ==
    /\ main.pc = "collecting"
    /\ Finished = DOMAIN tasks
    /\ IF \E i \in DOMAIN tasks : tasks[i].pc = "raised"
       THEN main' = [main EXCEPT !.pc = "returned", !.raised = TRUE]
       ELSE main' = [main EXCEPT !.pc = "returned",
                                 !.results = tasks,
                                 !.summary = IF impl = "dm" THEN summary(tasks)
                                             ELSE md_summary(tasks)]
    /\ UNCHANGED <<dir, cache0, impl, items, max_workers, tasks, installs, probe, pruneVars, playerVars, storeVars, downloads, command, srv, bc>>

Next ==
    \/ download_playlist_items
    \/ md_download_playlist_items
    \/ \E i \in DOMAIN tasks : dm_start(i)
    \/ \E i \in DOMAIN tasks : md_start(i)
    \/ \E i \in DOMAIN tasks : get_ok(i)
    \/ \E i \in DOMAIN tasks : get_fail(i)
    \/ \E i \in DOMAIN tasks : write_chunk(i)
    \/ \E i \in DOMAIN tasks : write_fail(i)
    \/ \E i \in DOMAIN tasks : verify(i)
    \/ \E i \in DOMAIN tasks : install(i)
    \/ \E i \in DOMAIN tasks : install_fail(i)
    \/ \E i \in DOMAIN tasks : dm_finally(i)
    \/ collect

Spec == InitFetch /\ [][Next]_vars

-----------------------------------------------------------------------------
(* Claims checked under Spec *)

Done(i) == tasks[i].pc = "done"
Named(i) == items[i].filename # NoStr

\* C1: in every interleaving of the workers of a batch, the file at a final cache
\* path is the file that was there before the batch or a completely downloaded
\* body; a partially written file is never visible at the final path.
C1_NoPartialFileAtFinalPath ==
    \A path \in FinalPaths :
        exists(dir, path) =>
            \/ exists(cache0, path) /\ dir[path] = cache0[path]
            \/ dir[path].data = Body

\* C2: whenever download_single_item returns "downloaded" or "cached" for an item
\* with a checksum, with or without a url, the file at the item's cache path
\* exists and its digest equals the checksum.
C2_ReturnedFileMatchesChecksum ==
    [][\A i \in DOMAIN tasks :
          ( /\ impl = "dm" /\ tasks' # <<>>
            /\ ~Done(i) /\ tasks'[i].pc = "done"
            /\ tasks'[i].status \in {"downloaded", "cached"}
            /\ items[i].checksum # None )
          => /\ exists(dir', cached_path(i))
             /\ calculate_checksum(dir', cached_path(i)) = items[i].checksum]_vars

\* C3: a fetch that returns "error" for an item whose final path held a file never
\* replaced that path, and as long as no fetch of the batch has replaced it the
\* file is byte-identical to the one that was there.
C3_FailedFetchKeepsFinalFile ==
    \A i \in DOMAIN tasks :
        (Done(i) /\ tasks[i].status = "error" /\ Named(i) /\ exists(cache0, cached_path(i)))
        => /\ i \notin installs[items[i].filename]
           /\ installs[items[i].filename] = {} =>
                /\ exists(dir, cached_path(i))
                /\ dir[cached_path(i)] = cache0[cached_path(i)]

\* C3 witness: a transfer that had started writing failed, and the old file is intact
C3_Witness ==
    \E i \in DOMAIN tasks :
        /\ Done(i) /\ tasks[i].status = "error" /\ tasks[i].opened
        /\ Named(i) /\ exists(cache0, cached_path(i))
        /\ installs[items[i].filename] = {}
        /\ exists(dir, cached_path(i)) /\ dir[cached_path(i)] = cache0[cached_path(i)]

\* another worker is still busy with the same temp path
TempInUse(i) ==
    \E j \in DOMAIN tasks \ {i} :
        /\ items[j].filename = items[i].filename
        /\ tasks[j].pc \in {"write", "verify", "replace"}

\* C4: after a fetch that wrote a temp file has returned "error", for whatever
\* reason, that temp file (.tmp / .part) is no longer in the cache directory.
C4_NoTempFileAfterError ==
    \A i \in DOMAIN tasks :
        (Done(i) /\ tasks[i].status = "error" /\ tasks[i].opened /\ ~TempInUse(i))
        => ~exists(dir, temp_path(i))

\* the items of the batch whose download failed
FailedItems == {i \in DOMAIN tasks : tasks[i].failed}

C6_InFlightBounded == Cardinality(InFlight) <= max_workers

\* C6 witness: the pool is full and an item is waiting for a free worker
C6_Witness ==
    /\ Cardinality(InFlight) = max_workers
    /\ \E i \in DOMAIN tasks : tasks[i].pc = "queued"

\* C9: a digest that cannot be computed counts as a failed verification: when it
\* happens in needs_download the item is not reported cached, and when it happens
\* on the downloaded temp file the fetch returns error and installs nothing.
C9_DigestFailureIsVerificationFailure ==
    \A i \in DOMAIN tasks :
        /\ tasks[i].nd_failed => (Done(i) => tasks[i].status \in {"downloaded", "error"})
        /\ tasks[i].verify_failed =>
              /\ tasks[i].status = "error"
              /\ i \notin installs[items[i].filename]

\* C9 witness: one fetch met both failures: the cached file was unreadable and the
\* temp file could not be read back
C9_Witness ==
    \E i \in DOMAIN tasks : Done(i) /\ tasks[i].nd_failed /\ tasks[i].verify_failed

-----------------------------------------------------------------------------
(* Cache cleanup: cleanup_old_cache.py.  A directory entry is named by its path *)
(* <<filename, suffix>>; a playlist filename f names the entry <<f, "">>.       *)

GitKeep == <<".gitkeep", "">>

\* get_current_playlist_filenames: the filenames of the items of PLAYLIST_FILE; the
\* empty set when the file is missing or json.load raises
get_current_playlist_filenames(pf) ==
    IF pf.state # "ok" THEN {}
    ELSE {get_media_path(pf.items[i].filename) :
             i \in {j \in DOMAIN pf.items : pf.items[j].filename # NoStr}}

\* a plausible slip: .gitkeep is not left out
get_cached_filenames_all(d) == DOMAIN d

\* get_cached_filenames: the regular files of the cache directory, .gitkeep left out
get_cached_filenames(d) == {path \in DOMAIN d : path # GitKeep}

\* a plausible slip: every cached file is taken for old
files_to_delete_all(cached_files, playlist_files) == cached_files

\* "Find files to delete (in cache but not in playlist)"
files_to_delete(cached_files, playlist_files) == cached_files \ playlist_files

files_to_keep(cached_files, playlist_files) == cached_files \cap playlist_files

RECURSIVE total_size(_, _)
\* total_freed_bytes += file_size, over the deleted files
total_size(d, paths) ==
    IF paths = {} THEN 0
    ELSE LET path == CHOOSE q \in paths : TRUE
         IN st_size(d, path) + total_size(d, paths \ {path})

\* entries of the cache directory that cleanup can meet: media files of the
\* playlist, a media file of an older playlist, a temp file of a download, .gitkeep
PrunePaths == FinalPaths \cup {<<"old", "">>, <<"a", ".tmp">>, GitKeep}
PruneCaches == UNION {[S -> {File(Body, TRUE)}] : S \in SUBSET PrunePaths}

PlaylistFiles ==
    {[state |-> "missing", items |-> <<>>], [state |-> "corrupt", items |-> <<>>]}
    \cup {[state |-> "ok", items |-> pl] : pl \in Playlists}

InitPrune ==
    /\ dir \in PruneCaches
    /\ cache0 = dir
    /\ impl = "dm"
    /\ items = <<>>
    /\ max_workers = MAX_CONCURRENT_DOWNLOADS
    /\ tasks = NoTasks
    /\ main = IdleMain
    /\ installs = NoInstalls
    /\ probe = NoProbe
    /\ playlist_file \in PlaylistFiles
    /\ prune = NoPrune
    /\ NoPlayer
    /\ NoStore

\* cleanup_old_cache_files(dry_run); unlink() may raise for some files, which the
\* loop reports and skips
cleanup_old_cache_files ==
    \E dry_run \in BOOLEAN :
        LET playlist_files == get_current_playlist_filenames(playlist_file)
            cached_files == get_cached_filenames(dir)
            to_delete == files_to_delete(cached_files, playlist_files)
        IN \E stuck \in SUBSET to_delete :
              LET deleted == IF dry_run THEN to_delete ELSE to_delete \ stuck IN
              /\ dry_run => stuck = {}
              /\ dir' = IF dry_run THEN dir ELSE [q \in DOMAIN dir \ deleted |-> dir[q]]
              /\ prune' = [called |-> TRUE, dry_run |-> dry_run,
                           deleted_files |-> deleted,
                           freed_bytes |-> total_size(dir, deleted),
                           kept_files |-> files_to_keep(cached_files, playlist_files),
                           playlist_files |-> playlist_files,
                           before |-> dir]
              /\ UNCHANGED <<fetchVars, probe, playlist_file, playerVars, storeVars, downloads, command, srv, bc>>

NextPrune == cleanup_old_cache_files

SpecPrune == InitPrune /\ [][NextPrune]_vars

\* C10: for every playlist and cache content, cleanup deletes only cached files
\* whose filename is not among the playlist's filenames: the deleted files and the
\* playlist's filenames are disjoint, and every cached file the playlist refers to
\* is still there afterwards, unchanged.
C10_PruneSparesPlaylistFiles ==
    prune.called =>
        LET playlist_files == get_current_playlist_filenames(playlist_file) IN
        /\ prune.deleted_files \cap playlist_files = {}
        /\ prune.deleted_files \subseteq DOMAIN prune.before
        /\ \A path \in playlist_files \cap DOMAIN prune.before :
              exists(dir, path) /\ dir[path] = prune.before[path]
        /\ DOMAIN prune.before \ DOMAIN dir \subseteq prune.deleted_files

\* C10 witness: a real cleanup deleted an old file and kept a playlist file
C10_Witness ==
    /\ prune.called /\ ~prune.dry_run
    /\ prune.deleted_files # {} /\ prune.kept_files # {}
    /\ \E path \in prune.kept_files : exists(dir, path)
    /\ \E path \in prune.deleted_files : ~exists(dir, path)

\* C12: for every cache content, cleanup neither lists a file carrying a temp
\* suffix (.tmp, .part) among the cached files nor deletes it.
C12_PruneIgnoresTempFiles ==
    prune.called =>
        \A path \in DOMAIN prune.before :
            path[2] # NoStr =>
                /\ path \notin get_cached_filenames(prune.before)
                /\ path \notin prune.deleted_files

-----------------------------------------------------------------------------
(* Playback supervisor: media_player.py.  The playback thread runs            *)
(* playback_loop; the main thread runs start(), the signal handler and        *)
(* stop().  A child process is a record: what it shows, whether it is alive   *)
(* and the last signal it was sent.                                            *)

\* config.PLAYER_CHECK_INTERVAL, in seconds
PLAYER_CHECK_INTERVAL == 1
\* config.DEFAULT_SCREEN_TIMEOUT, in seconds
DEFAULT_SCREEN_TIMEOUT == 30

\* items in a playlist the supervisor walks
MaxPlay == 2
\* playlist documents written to PLAYLIST_FILE while the supervisor runs
MaxFeed == 1
\* processes that outlive stop_current_player (wait(timeout=5) expired) at one time
MaxHung == 1

\* a "filename" value that is not a string, as in {"filename": 5}
BadName == "<5>"
is_str(filename) == filename # BadName

PlayItem(filename) == [filename |-> filename, url |-> "u", checksum |-> None]
PlayItems == {PlayItem(f) : f \in Filenames \cup {NoStr, BadName}}
PlaySeqs == UNION {[1..n -> PlayItems] : n \in 0..MaxPlay}
Versions == {"v1", "v2"}

\* the playlist documents a writer can put at PLAYLIST_FILE
PlayerDocs ==
    {[state |-> "ok", items |-> pl, version |-> v, loop |-> l] :
        pl \in PlaySeqs, v \in Versions, l \in BOOLEAN}

\* a plausible slip: a document is taken as changed when anything in it differs
load_playlist_on_any_change(m, pf) ==
    IF pf.state # "ok" THEN [mp |-> m, changed |-> FALSE]
    ELSE IF <<pf.version, pf.items, pf.loop>> # <<m.playlist_version, m.playlist, m.loop_enabled>>
    THEN [mp |-> [m EXCEPT !.playlist = pf.items,
                           !.playlist_version = pf.version,
                           !.loop_enabled = pf.loop,
                           !.current_index = 0,
                           !.no_playlist_since = IF pf.items # <<>> THEN NoTime ELSE @,
                           !.showing_default_screen = IF pf.items # <<>> THEN FALSE ELSE @],
          changed |-> TRUE]
    ELSE [mp |-> m, changed |-> FALSE]

\* a plausible slip: a document that cannot be read empties the playlist
load_playlist_clears_on_error(m, pf) ==
    IF pf.state # "ok"
    THEN [mp |-> [m EXCEPT !.playlist = <<>>, !.playlist_version = NoStr,
                           !.current_index = 0],
          changed |-> FALSE]
    ELSE IF pf.version # m.playlist_version
    THEN [mp |-> [m EXCEPT !.playlist = pf.items,
                           !.playlist_version = pf.version,
                           !.loop_enabled = pf.loop,
                           !.current_index = 0,
                           !.no_playlist_since = IF pf.items # <<>> THEN NoTime ELSE @,
                           !.showing_default_screen = IF pf.items # <<>> THEN FALSE ELSE @],
          changed |-> TRUE]
    ELSE [mp |-> m, changed |-> FALSE]

\* a plausible slip: the index is reset inside the "if self.playlist" block
load_playlist_resets_with_content(m, pf) ==
    IF pf.state # "ok" THEN [mp |-> m, changed |-> FALSE]
    ELSE IF pf.version # m.playlist_version
    THEN [mp |-> [m EXCEPT !.playlist = pf.items,
                           !.playlist_version = pf.version,
                           !.loop_enabled = pf.loop,
                           !.current_index = IF pf.items # <<>> THEN 0 ELSE @,
                           !.no_playlist_since = IF pf.items # <<>> THEN NoTime ELSE @,
                           !.showing_default_screen = IF pf.items # <<>> THEN FALSE ELSE @],
          changed |-> TRUE]
    ELSE [mp |-> m, changed |-> FALSE]

\* a plausible slip: the walk is not wound back when a new version is loaded
load_playlist_keeps_index(m, pf) ==
    IF pf.state # "ok" THEN [mp |-> m, changed |-> FALSE]
    ELSE IF pf.version # m.playlist_version
    THEN [mp |-> [m EXCEPT !.playlist = pf.items,
                           !.playlist_version = pf.version,
                           !.loop_enabled = pf.loop,
                           !.no_playlist_since = IF pf.items # <<>> THEN NoTime ELSE @,
                           !.showing_default_screen = IF pf.items # <<>> THEN FALSE ELSE @],
          changed |-> TRUE]
    ELSE [mp |-> m, changed |-> FALSE]

\* MediaPlayer.load_playlist: the attributes afterwards and the return value
load_playlist(m, pf) ==
    IF pf.state # "ok" THEN [mp |-> m, changed |-> FALSE]
    ELSE IF pf.version # m.playlist_version
    THEN [mp |-> [m EXCEPT !.playlist = pf.items,
                           !.playlist_version = pf.version,
                           !.loop_enabled = pf.loop,
                           !.current_index = 0,
                           !.no_playlist_since = IF pf.items # <<>> THEN NoTime ELSE @,
                           !.showing_default_screen = IF pf.items # <<>> THEN FALSE ELSE @],
          changed |-> TRUE]
    ELSE [mp |-> m, changed |-> FALSE]

Min(x, y) == IF x <= y THEN x ELSE y

\* time.time() after d more seconds.  The clock is only ever compared with
\* no_playlist_since: it stands at 0 while no timestamp is held and is not
\* counted beyond the timestamp plus the default-screen timeout.
tick(m, now, d) ==
    IF m.no_playlist_since = NoTime THEN 0
    ELSE Min(now + d, m.no_playlist_since + DEFAULT_SCREEN_TIMEOUT)

\* subprocess.Popen.poll() is None
alive(ps, p) == p \in DOMAIN ps /\ ps[p].alive

\* the pid subprocess.Popen gets
new_pid(ps) == CHOOSE p \in 1..(Cardinality(DOMAIN ps) + 1) : p \notin DOMAIN ps

\* subprocess.Popen(cmd, ..., preexec_fn=os.setsid)
Popen(ps, kind, file) ==
    [p \in DOMAIN ps \cup {new_pid(ps)} |->
        IF p \in DOMAIN ps THEN ps[p]
        ELSE [kind |-> kind, file |-> file, alive |-> TRUE, sig |-> "none"]]

\* a plausible slip: the force-kill step sends the graceful signal once more
send_signal_graceful(ps, p, sig) ==
    IF p \in DOMAIN ps /\ ps[p].alive THEN [ps EXCEPT ![p].sig = "term"] ELSE ps

\* Popen.terminate() / Popen.kill(): the signal is sent; when the process exits
\* is up to the process
send_signal(ps, p, sig) ==
    IF alive(ps, p) THEN [ps EXCEPT ![p].sig = sig] ELSE ps

\* process objects nobody refers to any more are dropped once the process is gone
refs(m, th) == {m.current_process, th.player.h, th.main.h} \ {NoProc}
hung(ps, m, th) == {p \in DOMAIN ps : ps[p].alive /\ p \notin refs(m, th)}
gc(ps, m, th) ==
    LET reaped == IF Cardinality(hung(ps, m, th)) > MaxHung
                  THEN {CHOOSE p \in hung(ps, m, th) : \A q \in hung(ps, m, th) : p <= q}
                  ELSE {}
    IN [p \in {q \in DOMAIN ps \ reaped : ps[q].alive \/ q \in refs(m, th)} |-> ps[p]]

cacheVars == <<dir, fetchVars, probe, pruneVars, storeVars, downloads, command, srv, bc>>

Go(t, pc) == [thr EXCEPT ![t].pc = pc]
\* t calls self.stop_current_player() and continues at ret afterwards
Call(t, ret) == [thr EXCEPT ![t].pc = "stop_check", ![t].ret = ret, ![t].n = 0]

\* the playback thread dies with the process once the main thread has returned
player_runs == thr.player.pc # "off" /\ thr.main.pc # "exited"

\* history: a reload that returned True restarts the walk; one that returned False
\* although the document differs from what the supervisor holds has ignored it;
\* unread tells that the last reload found no document it could parse
after_load(h, m, r, pf) ==
    IF r.changed
    THEN [h EXCEPT !.last_played = NoIndex, !.skipped = FALSE,
                   !.changed = TRUE, !.from = m.current_index, !.doc = pf,
                   !.ignored = FALSE, !.unread = FALSE]
    ELSE [h EXCEPT !.ignored =
            IF pf.state = "ok"
            THEN pf.items # m.playlist \/ pf.loop # m.loop_enabled
            ELSE FALSE,
                   !.unread = pf.state # "ok"]

\* playback_loop, lines 290-295 and 357-358: the loop condition, then
\* load_playlist() and, when it returned True, stop_current_player()
playback_loop ==
    /\ player_runs /\ thr.player.pc = "top"
    /\ IF mp.should_stop
       THEN /\ thr' = Go("player", "ended")
            /\ playback_state' = update_playback_state(mp, "stopped", "Player daemon stopped")
            /\ UNCHANGED <<mp, clock, hist>>
       ELSE LET r == load_playlist(mp, playlist_file) IN
            /\ mp' = r.mp
            /\ clock' = tick(r.mp, clock, 0)
            /\ thr' = IF r.changed THEN Call("player", "have") ELSE Go("player", "have")
            /\ hist' = after_load(hist, mp, r, playlist_file)
            /\ UNCHANGED playback_state
    /\ UNCHANGED <<procs, feed, cacheVars>>

\* a plausible slip: the default screen is shown as soon as the playlist is empty
default_screen_due_at_once(m, now) ==
    ~m.showing_default_screen

\* line 306: time.time() - self.no_playlist_since >= config.DEFAULT_SCREEN_TIMEOUT
\* and not self.showing_default_screen
default_screen_due(m, now) ==
    /\ now - m.no_playlist_since >= DEFAULT_SCREEN_TIMEOUT
    /\ ~m.showing_default_screen

\* a plausible slip: a playlist none of whose files is cached counts as no playlist
no_playlist_or_nothing_cached(m, d) ==
    \/ m.playlist = <<>>
    \/ \A i \in DOMAIN m.playlist :
          \/ ~is_str(m.playlist[i].filename)
          \/ m.playlist[i].filename = NoStr
          \/ ~exists(d, get_media_path(m.playlist[i].filename))

\* lines 298 and 311: not self.playlist; the cache directory d is not looked at
no_playlist(m, d) == m.playlist = <<>>

\* playback_loop, lines 298-324: there is no playlist
loop_no_playlist ==
    /\ player_runs /\ thr.player.pc = "have" /\ no_playlist(mp, dir)
    /\ IF mp.no_playlist_since = NoTime
       THEN /\ mp' = [mp EXCEPT !.no_playlist_since = clock]
            /\ playback_state' = update_playback_state(mp, "waiting", "No playlist")
            /\ thr' = Go("player", "top")
            /\ UNCHANGED clock
       ELSE IF default_screen_due(mp, clock)
       THEN /\ thr' = Go("player", "show")
            /\ UNCHANGED <<mp, playback_state, clock>>
       ELSE /\ thr' = Go("player", "top")
            /\ clock' = tick(mp, clock, PLAYER_CHECK_INTERVAL * 2)
            /\ UNCHANGED <<mp, playback_state>>
    /\ UNCHANGED <<procs, feed, hist, cacheVars>>

\* show_default_screen, lines 166-203, and the fallback sleep of line 320: the
\* image may be unavailable (return False before anything is written) and Popen
\* may raise (return False after the state was written)
show_default_screen ==
    /\ player_runs /\ thr.player.pc = "show"
    /\ \E outcome \in {"shown", "no image", "Popen raises"} :
          /\ playback_state' =
                IF outcome = "no image" THEN playback_state
                ELSE update_playback_state(mp, "showing_default", "Default Screen")
          /\ IF outcome = "shown"
             THEN /\ procs' = Popen(procs, "default", NoStr)
                  /\ mp' = [mp EXCEPT !.current_process = new_pid(procs),
                                      !.showing_default_screen = TRUE]
                  /\ thr' = Go("player", "dwell")
                  /\ UNCHANGED clock
             ELSE /\ thr' = Go("player", "top")
                  /\ clock' = tick(mp, clock, PLAYER_CHECK_INTERVAL * 5)
                  /\ UNCHANGED <<mp, procs>>
    /\ UNCHANGED <<feed, hist, cacheVars>>

\* playback_loop, lines 311-316: the default screen stays until a playlist arrives
default_screen_poll ==
    /\ player_runs /\ thr.player.pc = "dwell"
    /\ IF ~no_playlist(mp, dir) \/ mp.should_stop
       THEN /\ thr' = Call("player", "dwell_done")
            /\ UNCHANGED <<mp, clock, hist>>
       ELSE LET r == load_playlist(mp, playlist_file) IN
            /\ mp' = r.mp
            /\ hist' = after_load(hist, mp, r, playlist_file)
            /\ thr' = IF r.changed THEN Call("player", "dwell_done") ELSE thr
            /\ clock' = IF r.changed THEN tick(r.mp, clock, 0)
                        ELSE tick(r.mp, clock, PLAYER_CHECK_INTERVAL)
    /\ UNCHANGED <<procs, feed, playback_state, cacheVars>>

\* playback_loop, line 317
default_screen_done ==
    /\ player_runs /\ thr.player.pc = "dwell_done"
    /\ mp' = [mp EXCEPT !.showing_default_screen = FALSE]
    /\ thr' = Go("player", "top")
    /\ UNCHANGED <<procs, clock, feed, playback_state, hist, cacheVars>>

\* a plausible slip: every playlist loops
loop_enabled_always(m) == TRUE

\* line 329: if self.loop_enabled
loop_enabled(m) == m.loop_enabled

\* a plausible slip: the walk is wound back to the last item
rewind_to_last(m) == [m EXCEPT !.current_index = Len(m.playlist) - 1]

\* line 330: self.current_index = 0
rewind(m) == [m EXCEPT !.current_index = 0]

\* playback_loop, lines 326-341: the end of the playlist (wrap, or "finished" and
\* the long sleep), else the lookup of the current item
loop_get_item ==
    /\ player_runs /\ thr.player.pc = "have" /\ ~no_playlist(mp, dir)
    /\ IF mp.current_index >= Len(mp.playlist) /\ ~loop_enabled(mp)
       THEN /\ playback_state' = update_playback_state(mp, "finished", "Playlist complete")
            /\ clock' = tick(mp, clock, PLAYER_CHECK_INTERVAL * 10)
            /\ thr' = Go("player", "top")
            /\ UNCHANGED <<mp, hist>>
       ELSE /\ mp' = IF mp.current_index >= Len(mp.playlist) THEN rewind(mp) ELSE mp
            /\ thr' = Go("player", "play")
            /\ hist' = [hist EXCEPT !.attempt = mp'.current_index, !.outcome = ""]
            /\ UNCHANGED <<playback_state, clock>>
    /\ UNCHANGED <<procs, feed, cacheVars>>

\* history: play_media_item returned, or raised, without a process having run
skipped(h, outcome) == [h EXCEPT !.outcome = outcome, !.skipped = TRUE, !.changed = FALSE]

\* play_media_item, lines 244-268: no filename and no file return False; a
\* filename that is not a string makes get_media_path raise (outside the try);
\* Popen may raise (inside it)
play_media_item ==
    /\ player_runs /\ thr.player.pc = "play"
    /\ LET item == mp.playlist[mp.current_index + 1]
           filename == item.filename
       IN IF filename = NoStr
          THEN /\ thr' = Go("player", "advance")
               /\ hist' = skipped(hist, "no filename")
               /\ UNCHANGED <<mp, procs, playback_state>>
          ELSE IF ~is_str(filename)
          THEN /\ thr' = Go("player", "except")
               /\ hist' = skipped(hist, "raised")
               /\ UNCHANGED <<mp, procs, playback_state>>
          ELSE IF ~exists(dir, get_media_path(filename))
          THEN /\ thr' = Go("player", "advance")
               /\ hist' = skipped(hist, "file missing")
               /\ UNCHANGED <<mp, procs, playback_state>>
          ELSE /\ playback_state' = update_playback_state(mp, "playing", filename)
               /\ \E launched \in BOOLEAN :
                     IF launched
                     THEN /\ procs' = gc(Popen(procs, "player", filename),
                                         [mp EXCEPT !.current_process = new_pid(procs)], thr)
                          /\ mp' = [mp EXCEPT !.current_process = new_pid(procs)]
                          /\ thr' = [thr EXCEPT !.player.pc = "wait",
                                                !.player.h = new_pid(procs)]
                          /\ hist' = [hist EXCEPT !.last_played = mp.current_index,
                                                  !.skipped = FALSE, !.changed = FALSE]
                     ELSE /\ mp' = [mp EXCEPT !.current_process = NoProc]
                          /\ procs' = gc(procs, mp', thr)
                          /\ thr' = Go("player", "advance")
                          /\ hist' = skipped(hist, "launch failed")
    /\ UNCHANGED <<clock, feed, cacheVars>>

\* play_media_item, lines 271-284: self.current_process.wait() returns when the
\* process has exited; finally self.current_process = None
play_media_item_wait ==
    /\ player_runs /\ thr.player.pc = "wait"
    /\ ~alive(procs, thr.player.h)
    /\ \E outcome \in {"exit 0", "exit nonzero"} :
          hist' = [hist EXCEPT !.outcome = outcome]
    /\ mp' = [mp EXCEPT !.current_process = NoProc]
    /\ thr' = [thr EXCEPT !.player.pc = "advance", !.player.h = NoProc]
    /\ procs' = gc(procs, mp', thr')
    /\ UNCHANGED <<clock, feed, playback_state, cacheVars>>

\* a plausible slip: the walk moves on only after a successful play
next_index_if_played(index, success) == IF success THEN index + 1 ELSE index

\* lines 342-346: success = self.play_media_item(...); self.current_index += 1
next_index(index, success) == index + 1

\* playback_loop, lines 344-350: move to the next item, pause
loop_advance ==
    /\ player_runs /\ thr.player.pc = "advance"
    /\ mp' = [mp EXCEPT !.current_index = next_index(@, hist.outcome = "exit 0")]
    /\ clock' = IF mp.should_stop THEN clock ELSE tick(mp, clock, PLAYER_CHECK_INTERVAL)
    /\ thr' = Go("player", "top")
    /\ UNCHANGED <<procs, feed, playback_state, hist, cacheVars>>

\* a plausible slip: the exception ends the loop
after_except_ended == "ended"

\* where the loop continues after the except clause of lines 352-355
after_except == "top"

\* playback_loop, lines 352-355: except Exception
loop_except ==
    /\ player_runs /\ thr.player.pc = "except"
    /\ playback_state' = update_playback_state(mp, "error", "Playback error")
    /\ clock' = tick(mp, clock, PLAYER_CHECK_INTERVAL * 5)
    /\ thr' = Go("player", after_except)
    /\ UNCHANGED <<mp, procs, feed, hist, cacheVars>>

-----------------------------------------------------------------------------
(* stop_current_player, run by the playback thread (lines 295, 316) and by    *)
(* the main thread (line 386).  Every line reads self.current_process anew.   *)

StopPcs == {"stop_check", "stop_terminate", "stop_poll", "stop_wait"}

\* the thread can take steps
runs(t) == IF t = "player" THEN player_runs ELSE thr.main.pc # "exited"

\* finally: self.current_process = None, and the return to the caller
stop_return(t) ==
    /\ mp' = [mp EXCEPT !.current_process = NoProc]
    /\ thr' = [thr EXCEPT ![t].pc = thr[t].ret, ![t].n = @ + 1]

\* line 103: if self.current_process and self.current_process.poll() is None
stop_check(t) ==
    /\ runs(t) /\ thr[t].pc = "stop_check"
    /\ thr' = [thr EXCEPT ![t].pc = IF alive(procs, mp.current_process)
                                    THEN "stop_terminate" ELSE thr[t].ret,
                          ![t].n = @ + 1]
    /\ UNCHANGED <<mp, procs, clock, feed, playback_state, hist, cacheVars>>

\* lines 105-109: terminate(), then time.sleep(2); with current_process None by
\* now the attribute lookup raises and the finally clause ends the call
stop_terminate(t) ==
    /\ runs(t) /\ thr[t].pc = "stop_terminate"
    /\ IF mp.current_process = NoProc
       THEN /\ stop_return(t)
            /\ UNCHANGED <<procs, clock>>
       ELSE /\ procs' = send_signal(procs, mp.current_process, "term")
            /\ clock' = tick(mp, clock, 2)
            /\ thr' = [thr EXCEPT ![t].pc = "stop_poll", ![t].n = @ + 1]
            /\ UNCHANGED mp
    /\ UNCHANGED <<feed, playback_state, hist, cacheVars>>

\* lines 111-113: if self.current_process.poll() is None: kill()
stop_poll(t) ==
    /\ runs(t) /\ thr[t].pc = "stop_poll"
    /\ IF mp.current_process = NoProc
       THEN /\ stop_return(t)
            /\ UNCHANGED procs
       ELSE /\ procs' = send_signal(procs, mp.current_process, "kill")
            /\ thr' = [thr EXCEPT ![t].pc = "stop_wait", ![t].n = @ + 1]
            /\ UNCHANGED mp
    /\ UNCHANGED <<clock, feed, playback_state, hist, cacheVars>>

\* a plausible slip: wait() without a timeout
wait_returns_on_exit(ps, p) == ~alive(ps, p)

\* Popen.wait(timeout=5) comes back: with the exit code, or with TimeoutExpired
wait_returns(ps, p) == TRUE

\* lines 115-121: wait(timeout=5); except Exception; finally
\* self.current_process = None
stop_wait(t) ==
    /\ runs(t) /\ thr[t].pc = "stop_wait"
    /\ mp.current_process # NoProc => wait_returns(procs, mp.current_process)
    /\ stop_return(t)
    /\ procs' = gc(procs, mp', thr')
    /\ clock' = IF alive(procs, mp.current_process) THEN tick(mp, clock, 5) ELSE clock
    /\ UNCHANGED <<feed, playback_state, hist, cacheVars>>

-----------------------------------------------------------------------------
(* The main thread: start() sleeps until a signal arrives; signal_handler     *)
(* runs stop(); back in start() the loop ends and stop() runs once more; then *)
(* main() returns and the process ends.                                        *)

\* signal_handler -> stop(), lines 381-386, and start() line 379 -> stop():
\* self.should_stop = True, then stop_current_player()
stop ==
    /\ thr.main.pc \in {"start", "start_done"}
    /\ mp' = [mp EXCEPT !.should_stop = TRUE]
    /\ thr' = Call("main", IF thr.main.pc = "start" THEN "join" ELSE "join_again")
    /\ UNCHANGED <<procs, clock, feed, playback_state, hist, cacheVars>>

\* stop(), lines 389-392: player_thread.join(timeout=5) comes back whether or
\* not the thread has ended; then the "stopped" state is written
stop_join ==
    /\ thr.main.pc \in {"join", "join_again"}
    /\ playback_state' = update_playback_state(mp, "stopped", "Player daemon stopped")
    /\ thr' = Go("main", IF thr.main.pc = "join" THEN "start_done" ELSE "exited")
    /\ clock' = IF thr.player.pc = "ended" THEN clock ELSE tick(mp, clock, 5)
    /\ UNCHANGED <<mp, procs, feed, hist, cacheVars>>

-----------------------------------------------------------------------------
(* The environment of the supervisor *)

\* a child process exits: on its own, or on a signal
process_exits ==
    \E p \in DOMAIN procs :
        /\ procs[p].alive
        /\ procs' = gc([procs EXCEPT ![p].alive = FALSE], mp, thr)
        /\ UNCHANGED <<mp, thr, clock, feed, playback_state, hist, cacheVars>>

\* a writer (the backend fetch, the playlist manager, the API) overwrites
\* PLAYLIST_FILE: fetch_backend_playlist.py lines 246-247
write_playlist ==
    /\ feed # <<>>
    /\ playlist_file' = Head(feed)
    /\ feed' = Tail(feed)
    /\ UNCHANGED <<dir, fetchVars, probe, prune, mp, thr, procs, clock, playback_state, hist,
                   storeVars, downloads, command, srv, bc>>

\* a second goes by while the supervisor holds a no_playlist_since timestamp
time_passes ==
    /\ mp.no_playlist_since # NoTime
    /\ clock' = tick(mp, clock, 1)
    /\ clock' # clock
    /\ UNCHANGED <<mp, thr, procs, feed, playback_state, hist, cacheVars>>

-----------------------------------------------------------------------------
(* Specification SpecPlayer: the supervisor against a cache directory and a   *)
(* playlist document that writers replace while it runs.                      *)

CorruptPlaylistFile == [state |-> "corrupt", items |-> <<>>]

\* PLAYLIST_FILE when the supervisor starts: missing, unparsable, or any playlist
InitialDocs ==
    {NoPlaylistFile, CorruptPlaylistFile}
    \cup {d \in PlayerDocs : d.version = "v1"}

\* what is written to PLAYLIST_FILE later: the same or another version, with no
\* item, one item or two, looping or not
FeedDocs ==
    {d \in PlayerDocs :
        d.items \in {<<>>, <<PlayItem("b")>>, <<PlayItem("a"), PlayItem("b")>>}}

Feeds == UNION {[1..n -> FeedDocs] : n \in 0..MaxFeed}

\* the cache: b is cached, a is not (yet)
PlayerCaches ==
    {c \in InitialCaches : DOMAIN c = {get_media_path("b")} /\ c[get_media_path("b")] = File(Body, TRUE)}

InitPlayer ==
    /\ dir \in PlayerCaches
    /\ cache0 = dir
    /\ impl = "dm"
    /\ items = <<>>
    /\ max_workers = MAX_CONCURRENT_DOWNLOADS
    /\ tasks = NoTasks
    /\ main = IdleMain
    /\ installs = NoInstalls
    /\ probe = NoProbe
    /\ playlist_file \in InitialDocs
    /\ prune = NoPrune
    /\ mp = MediaPlayer
    /\ thr = [player |-> Thread("top"), main |-> Thread("start")]
    /\ procs = <<>>
    /\ clock = 0
    /\ feed \in Feeds
    /\ playback_state = update_playback_state(MediaPlayer, "starting", "Media player daemon starting")
    /\ hist = NoHist
    /\ NoStore

PlayerStep ==
    \/ playback_loop
    \/ loop_no_playlist
    \/ show_default_screen
    \/ default_screen_poll
    \/ default_screen_done
    \/ loop_get_item
    \/ play_media_item
    \/ play_media_item_wait
    \/ loop_advance
    \/ loop_except
    \/ stop_check("player")
    \/ stop_terminate("player")
    \/ stop_poll("player")
    \/ stop_wait("player")

MainStep ==
    \/ stop
    \/ stop_check("main")
    \/ stop_terminate("main")
    \/ stop_poll("main")
    \/ stop_wait("main")
    \/ stop_join

NextPlayer ==
    \/ PlayerStep
    \/ MainStep
    \/ process_exits
    \/ write_playlist
    \/ time_passes

SpecPlayer == InitPlayer /\ [][NextPlayer]_vars

-----------------------------------------------------------------------------
(* Specification SpecSwap: the supervisor, writers of the playlist document   *)
(* and cache cleanup, which fetch_and_save_backend_playlist_with_cleanup runs  *)
(* right after it has written a new version, all on the same directory.        *)

\* version v1 is active (nothing, b, or an item with a bad filename, looping); what
\* is written next is version v2
InitSwap ==
    /\ InitPlayer
    /\ playlist_file \in {d \in PlayerDocs : d.version = "v1" /\ d.loop}
    /\ playlist_file.items \in {<<>>, <<PlayItem("b")>>, <<PlayItem(BadName)>>}
    /\ \A i \in DOMAIN feed : feed[i].version = "v2" /\ feed[i].loop

NextSwap == NextPlayer \/ cleanup_old_cache_files

SpecSwap == InitSwap /\ [][NextSwap]_vars

\* the process the playback thread is blocked on in play_media_item
playing == IF thr.player.pc = "wait" /\ alive(procs, thr.player.h)
           THEN {thr.player.h} ELSE {}

\* C11: for every interleaving of playlist writes, cleanup passes and playback, the
\* file of the item whose player process is running is in the cache directory: no
\* cleanup pass has deleted it.
C11_PruneSparesPlayingFile ==
    \A p \in playing : exists(dir, get_media_path(procs[p].file))

-----------------------------------------------------------------------------
(* The walk through the playlist (under SpecPlayer) *)

\* the playback thread starts the player process of the current item
Plays == thr.player.pc = "play" /\ thr'.player.pc = "wait"

\* C13: with loop enabled, as long as no new version is loaded and no attempt is
\* skipped (every file is cached, every launch works), the items are played in the
\* order 0, 1, ..., n-1, 0, 1, ...: the first item played is item 0, the item played
\* after item i is item (i + 1) mod n, and the walk never ends at the end of the
\* playlist.
C13_LoopCyclesInOrder ==
    [][/\ (Plays /\ mp.loop_enabled /\ ~hist.skipped) =>
              mp.current_index = IF hist.last_played = NoIndex THEN 0
                                 ELSE (hist.last_played + 1) % Len(mp.playlist)
       /\ (thr.player.pc = "have" /\ mp.playlist # <<>> /\ mp.loop_enabled
             /\ thr'.player.pc # "have") =>
              thr'.player.pc = "play" /\ mp'.current_index < Len(mp.playlist)
      ]_vars

\* C13 witness: the last item of a two-item playlist was played, the index was
\* wound back, and item 0 is about to be played again
C13_Witness ==
    /\ thr.player.pc = "play" /\ mp.loop_enabled /\ ~hist.skipped
    /\ Len(mp.playlist) = 2 /\ hist.last_played = 1 /\ mp.current_index = 0
    /\ exists(dir, get_media_path(mp.playlist[1].filename))

\* the supervisor is in Finished: the walk of a non-looping playlist is over
InFinished ==
    /\ mp.playlist # <<>> /\ ~mp.loop_enabled
    /\ mp.current_index >= Len(mp.playlist)

\* C14: with loop disabled, as long as no new version is loaded and no attempt is
\* skipped, item 0 is played first and item i + 1 after item i, each once; at the
\* end of the playlist the supervisor writes "finished" and plays nothing; it stays
\* there while the version it holds stays the same, and a reload that brings another
\* version puts the index back to 0.
C14_NoLoopPlaysOnceThenFinished ==
    [][/\ (Plays /\ ~mp.loop_enabled /\ ~hist.skipped) =>
              mp.current_index = IF hist.last_played = NoIndex THEN 0
                                 ELSE hist.last_played + 1
       /\ Plays => mp.current_index < Len(mp.playlist)
       /\ (InFinished /\ thr.player.pc = "have" /\ thr'.player.pc # "have") =>
              thr'.player.pc = "top" /\ playback_state'.status = "finished"
       /\ (InFinished /\ mp'.playlist_version = mp.playlist_version) =>
              InFinished' /\ mp'.current_index = mp.current_index /\ playing' = {}
       /\ (InFinished /\ mp'.playlist_version # mp.playlist_version) =>
              mp'.current_index = 0
      ]_vars

\* C14 witness: both items of a non-looping playlist were played and "finished" was
\* written
C14_Witness ==
    /\ InFinished /\ playback_state.status = "finished"
    /\ Len(mp.playlist) = 2 /\ hist.last_played = 1 /\ ~hist.skipped
    /\ playback_state.playlist_version = mp.playlist_version

\* C15: from the reload that found another version until the next attempt to play
\* an item, the index is 0, the items, the loop flag and the version are those of
\* the document loaded, and, once stop_current_player has returned, no process of
\* the supervisor is the running current process.
C15_VersionChangeRestartsWalk ==
    hist.changed =>
        /\ mp.current_index = 0
        /\ mp.playlist = hist.doc.items
        /\ mp.loop_enabled = hist.doc.loop
        /\ mp.playlist_version = hist.doc.version
        /\ playing = {}
        /\ thr.player.pc \notin (StopPcs \cup {"dwell"}) => ~alive(procs, mp.current_process)

\* C15 witness: the supervisor was past item 0 of one version when the reload found
\* another, and is about to play item 0 of the new one
C15_Witness ==
    /\ hist.changed /\ hist.from > 0
    /\ thr.player.pc = "play" /\ mp.current_index = 0
    /\ mp.playlist = playlist_file.items

-----------------------------------------------------------------------------
(* The default screen (under SpecPlayer) *)

\* the supervisor is in ShowingDefault
ShowingDefault ==
    /\ thr.player.pc = "dwell" /\ mp.showing_default_screen
    /\ alive(procs, mp.current_process)
    /\ procs[mp.current_process].kind = "default"
    /\ playback_state.status = "showing_default"

\* the timeout has elapsed since Waiting began
TimeoutElapsed ==
    /\ mp.playlist = <<>> /\ mp.no_playlist_since # NoTime
    /\ clock - mp.no_playlist_since >= DEFAULT_SCREEN_TIMEOUT

\* the default screen is never launched before the timeout has elapsed; the tick
\* that finds it elapsed calls show_default_screen
DefaultScreenOnlyWhenDue ==
    /\ (thr.player.pc = "show" /\ thr'.player.pc = "dwell") => TimeoutElapsed
    /\ (thr.player.pc = "have" /\ TimeoutElapsed /\ ~mp.showing_default_screen
          /\ thr'.player.pc # "have") => thr'.player.pc = "show"

\* a reload in ShowingDefault that brings a playlist with items leads to
\* stop_current_player with the index at 0; when the next item is played no
\* default-screen process is left that was not terminated and killed
DefaultScreenEnds ==
    /\ (thr.player.pc = "dwell" /\ mp'.playlist # <<>>) =>
          /\ thr'.player.pc = "stop_check" /\ thr'.player.ret = "dwell_done"
          /\ mp'.current_index = 0
    /\ Plays =>
          /\ \A p \in DOMAIN procs :
                procs[p].kind = "default" /\ procs[p].alive => procs[p].sig = "kill"
          /\ hist.changed => mp.current_index = 0

\* C16 as stated: once the playlist has been empty for the timeout the supervisor
\* moves to ShowingDefault and launches the default-screen process, never earlier;
\* a later reload with items ends the default screen and playback starts at index 0.
C16_DefaultScreenAfterTimeout ==
    [][/\ DefaultScreenOnlyWhenDue
       /\ (thr.player.pc = "show" /\ thr'.player.pc # "show") => ShowingDefault'
       /\ DefaultScreenEnds
      ]_vars

\* C16 as amended: the same, except that show_default_screen may fail to launch the
\* process (no image, Popen raises); the supervisor then starts no process, stays in
\* Waiting and comes back to the reload step after a pause.
C16_DefaultScreenUnlessLaunchFails ==
    [][/\ DefaultScreenOnlyWhenDue
       /\ (thr.player.pc = "show" /\ thr'.player.pc # "show") =>
             \/ ShowingDefault'
             \/ thr'.player.pc = "top" /\ procs' = procs /\ mp' = mp
       /\ DefaultScreenEnds
      ]_vars

\* C16 witness: the default screen was shown, a reload brought a playlist with
\* items, and the default-screen process has been stopped
C16_Witness ==
    /\ thr.player.pc = "dwell_done" /\ mp.playlist # <<>> /\ mp.current_index = 0
    /\ mp.no_playlist_since = NoTime
    /\ ~alive(procs, mp.current_process)
    /\ playback_state.status = "showing_default"

-----------------------------------------------------------------------------
(* One attempt, one step forward (under SpecPlayer) *)

\* the outcomes of an attempt to play the current item that the walk survives
Outcomes == {"exit 0", "exit nonzero", "file missing", "no filename", "launch failed"}

\* C17: an attempt to play the current item that ends with exit code 0, a non-zero
\* exit code, a missing file, an item without filename or a failed launch leaves the
\* index where it was and leads to the advance step, which adds exactly one and
\* returns to the top of the loop.
C17_IndexAdvancesAfterEveryAttempt ==
    [][/\ (thr.player.pc \in {"play", "wait"} /\ thr'.player.pc \notin {"play", "wait"}
             /\ hist'.outcome \in Outcomes) =>
              thr'.player.pc = "advance" /\ mp'.current_index = hist.attempt
       /\ (thr.player.pc = "advance" /\ thr'.player.pc # "advance") =>
              /\ hist.outcome \in Outcomes
              /\ thr'.player.pc = "top"
              /\ mp'.current_index = hist.attempt + 1
      ]_vars

\* C17 witness: the player of the second item ended with a non-zero exit code and
\* the index moved on to 2
C17_Witness ==
    /\ thr.player.pc = "top" /\ hist.outcome = "exit nonzero"
    /\ hist.attempt = 1 /\ mp.current_index = 2

-----------------------------------------------------------------------------
(* The two-phase stop (under SpecPlayer) *)

Threads == {"player", "main"}

\* the next line of stop_current_player in thread t
stop_current_player(t) ==
    stop_check(t) \/ stop_terminate(t) \/ stop_poll(t) \/ stop_wait(t)

\* thread t returns from stop_current_player
Returns(t) == thr[t].pc \in StopPcs /\ thr'[t].pc \notin StopPcs

\* no line of stop_current_player waits for anything: a thread inside it can always
\* take its next step, and it has taken fewer steps than the call has
StopNeverBlocks ==
    \A t \in Threads :
        thr[t].pc \in StopPcs /\ runs(t) =>
            /\ ENABLED stop_current_player(t)
            /\ thr[t].n < Cardinality(StopPcs)

\* C18 as stated: stop_current_player returns after at most four steps (check and
\* terminate, grace wait and kill, bounded wait, finally) whatever the process
\* does, and on return current_process is None.
C18_StopReturnsHoldingNothing ==
    /\ []StopNeverBlocks
    /\ [][\A t \in Threads : Returns(t) => mp'.current_process = NoProc]_vars

\* C18 as amended: stop_current_player returns after at most four steps whatever
\* the process does; on return current_process is not a running process, and it is
\* None whenever the stop sequence ran; the handle of a process that had already
\* exited when stop_current_player was called stays in place.
C18_StopReturnsHoldingNoRunningProcess ==
    /\ []StopNeverBlocks
    /\ [][\A t \in Threads :
            Returns(t) =>
                /\ ~alive(procs', mp'.current_process)
                /\ thr[t].pc # "stop_check" => mp'.current_process = NoProc
                /\ thr[t].pc = "stop_check" => mp'.current_process = mp.current_process
         ]_vars

\* C18 witness: the playback thread is back from stop_current_player, holds no
\* process, and the default-screen process it terminated and killed still runs
C18_Witness ==
    /\ thr.player.pc = "dwell_done" /\ mp.current_process = NoProc
    /\ \E p \in DOMAIN procs :
          procs[p].kind = "default" /\ procs[p].alive /\ procs[p].sig = "kill"

-----------------------------------------------------------------------------
(* Exceptions in the loop body (under SpecPlayer) *)

\* C20: an exception in the loop body leads to the except clause, which writes
\* status "error", sleeps and goes back to the top of the loop; the loop is left
\* only from its top, with should_stop set.
C20_ExceptionKeepsLoopRunning ==
    [][/\ (hist'.outcome = "raised" /\ hist.outcome # "raised") =>
              thr'.player.pc = "except"
       /\ (thr.player.pc = "except" /\ thr'.player.pc # "except") =>
              /\ playback_state'.status = "error"
              /\ thr'.player.pc = "top"
       /\ (thr'.player.pc = "ended" /\ thr.player.pc # "ended") =>
              mp.should_stop /\ thr.player.pc = "top"
      ]_vars

\* C20 witness: an exception was raised, "error" was written, and the loop is at
\* its top again with no shutdown requested
C20_Witness ==
    /\ thr.player.pc = "top" /\ hist.outcome = "raised"
    /\ playback_state.status = "error" /\ ~mp.should_stop

-----------------------------------------------------------------------------
(* Specification SpecPlayerFair: the supervisor with its scheduling.  A thread *)
(* that can take a step takes it: the playback thread always, the main thread  *)
(* once a signal has arrived.  Nothing makes a signal arrive, a child process  *)
(* exit, or a writer write.                                                     *)

\* the main thread past the arrival of the signal
main_continues == thr.main.pc # "start" /\ MainStep

SpecPlayerFair ==
    /\ InitSwap
    /\ [][NextPlayer]_vars
    /\ WF_vars(PlayerStep)
    /\ WF_vars(main_continues)

\* the playback thread is at a line that reloads the playlist: line 293, or line
\* 312 while the default screen is shown
AtReload == thr.player.pc \in {"top", "dwell"}

\* C19: as long as the supervisor runs, the playback loop comes back to a reload
\* of the playlist again and again, whatever the player process does.
C19_LoopAlwaysReturnsToReload ==
    []<>(AtReload \/ thr.player.pc = "ended" \/ thr.main.pc = "exited")

-----------------------------------------------------------------------------
(* Specification SpecDevice: the supervisor and the API server (pi_server.py), *)
(* two services of one device that share config.PLAYBACK_STATE_FILE.           *)

\* pi_server.update_playback_state(status): the document the API server writes, with
\* current_item None, position 0 and neither playlist_version nor playlist_total
pi_server_update_playback_state(status) ==
    [status |-> status, current_item |-> NoStr,
     playlist_position |-> 0,
     playlist_version |-> NoStr,
     playlist_total |-> NoIndex]

\* control_playback: valid_actions
valid_actions == {"play", "pause", "stop", "next", "restart"}

\* f"control_{action}"
control_status(action) ==
    CASE action = "play" -> "control_play"
      [] action = "pause" -> "control_pause"
      [] action = "stop" -> "control_stop"
      [] action = "next" -> "control_next"
      [] action = "restart" -> "control_restart"

\* POST /control/{action}: a valid action is written into the playback-state file
\* "to signal media player"; an invalid one is answered with status 400
control_playback ==
    \E action \in valid_actions \cup {"eject"} :
        /\ action \in valid_actions
        /\ playback_state' = pi_server_update_playback_state(control_status(action))
        /\ UNCHANGED <<mp, thr, procs, clock, feed, hist, cacheVars>>

NextDevice ==
    \/ NextPlayer
    \/ control_playback

SpecDevice == InitSwap /\ [][NextDevice]_vars

\* the statuses the supervisor writes
Statuses ==
    {"starting", "waiting", "showing_default", "playing", "finished", "error", "stopped"}

\* C21: the status of the playback-state document is always one of the seven statuses
\* of the supervisor, whichever component wrote the document last.
C21_StatusIsASupervisorStatus == playback_state.status \in Statuses

-----------------------------------------------------------------------------
(* The playback-state document against the supervisor (under SpecPlayer) *)

\* what the playback-state document tells about the walk equals what the supervisor
\* holds
InSync ==
    /\ playback_state.playlist_position = mp.current_index
    /\ playback_state.playlist_version = mp.playlist_version
    /\ playback_state.playlist_total = Len(mp.playlist)

\* a step that moves the index or adopts a playlist
Transition ==
    <<mp'.current_index, mp'.playlist_version, mp'.playlist>>
        # <<mp.current_index, mp.playlist_version, mp.playlist>>

\* C22: when the supervisor makes a transition, the transition before it has been
\* written: the document's position, version and total are the supervisor's.
C22_TransitionsAreWritten == [][Transition => InSync]_vars

-----------------------------------------------------------------------------
(* Shutdown (under SpecPlayer) *)

\* stop() has returned at least once: the main thread is back in start(), in its
\* second call of stop(), or gone
StopReturned ==
    thr.main.pc \in {"start_done", "exited"} \/ thr.main.ret = "join_again"

\* C23: once stop() has returned, whatever the playback thread was doing meanwhile,
\* every process the supervisor spawned has exited or has been terminated and
\* killed, and no step spawns a process.
C23_StopLeavesNoProcess ==
    /\ [](StopReturned =>
            \A p \in DOMAIN procs : procs[p].alive => procs[p].sig = "kill")
    /\ [][StopReturned =>
            \A p \in DOMAIN procs' :
                procs'[p].alive => p \in DOMAIN procs /\ procs[p].alive]_vars

\* C24: status "stopped" is written only when a shutdown has been requested, and once
\* the document says "stopped" no write gives it another status.
C24_StoppedIsTerminal ==
    [][/\ playback_state'.status = "stopped" /\ playback_state.status # "stopped"
            => mp.should_stop
       /\ playback_state.status = "stopped" => playback_state'.status = "stopped"
      ]_vars

-----------------------------------------------------------------------------
(* Change detection (under SpecPlayer) *)

\* C25: while the playback thread is at a line that reloads the playlist and the
\* document has the version the supervisor holds, no step changes the supervisor's
\* items, loop flag or index, whatever the document's items and loop flag are.
C25_SameVersionIsIgnored ==
    [][(AtReload /\ playlist_file.state = "ok"
          /\ playlist_file.version = mp.playlist_version) =>
            /\ mp'.playlist = mp.playlist
            /\ mp'.loop_enabled = mp.loop_enabled
            /\ mp'.current_index = mp.current_index
      ]_vars

\* C25 witness: the last reload found a document of the same version with other
\* items and the other loop flag, in the middle of the walk, and went on
C25_Witness ==
    /\ thr.player.pc = "have" /\ hist.ignored /\ mp.current_index = 1
    /\ playlist_file.state = "ok"
    /\ playlist_file.version = mp.playlist_version
    /\ playlist_file.items # mp.playlist
    /\ playlist_file.loop # mp.loop_enabled

-----------------------------------------------------------------------------
(* The playlist store: fetch_backend_playlist.py writes the active document   *)
(* and its backup; playlist_manager.py writes the active document from the    *)
(* backend's answer or from a default playlist.                               *)

\* calls of fetch_and_save_backend_playlist (with or without cleanup)
MaxSwaps == 2

\* a playlist document with its "source" key (NoStr: the key is absent)
StoreDoc(version, its, source) ==
    [state |-> "ok", items |-> its, version |-> version, loop |-> TRUE, source |-> source]

StoreItems == {<<>>, <<PlayItem("a")>>}

\* convert_backend_playlist_to_player_format: the documents it returns; loop is
\* forced to True and source is "backend_api"
ConvertedDocs == {StoreDoc(v, its, "backend_api") : v \in Versions, its \in StoreItems}

\* get_playlist_from_backend: the documents the backend answers with, in the format
\* the method documents (version, last_updated, loop, items)
BackendDocs == {StoreDoc("v1", its, NoStr) : its \in StoreItems}

\* get_playlist_from_backend returned None: 404, no connection, bad answer
NoAnswer == NoPlaylistFile

\* PlaylistManager.get_default_cloudinary_playlist
get_default_cloudinary_playlist ==
    StoreDoc("default-cloudinary-v1.0",
             [i \in 1..7 |->
                PlayItem(<<"cloudinary_collection_1.mp4", "cloudinary_collection_2.mp4",
                           "cloudinary_collection_3.mp4", "cloudinary_collection_4.mp4",
                           "cloudinary_collection_5.mp4", "cloudinary_collection_6.mp4",
                           "cloudinary_collection_7.mp4">>[i])],
             "default_fallback")

\* a plausible slip: the last-resort playlist has no items
create_sample_video_playlist_empty ==
    StoreDoc("default-samples-v1.0", <<>>, "default_samples")

\* PlaylistManager.create_sample_video_playlist
create_sample_video_playlist ==
    StoreDoc("default-samples-v1.0",
             [i \in 1..5 |->
                PlayItem(<<"big_buck_bunny.mp4", "elephants_dream.mp4",
                           "for_bigger_blazes.mp4", "for_bigger_escapes.mp4",
                           "for_bigger_fun.mp4">>[i])],
             "default_samples")

\* a plausible slip: the active document is overwritten first and copied afterwards
write_then_backup(pf, bk, new) ==
    [playlist_file |-> new, backup_file |-> new]

\* lines 143-152: if the active document exists its text is copied to the backup
\* file, then the active document is overwritten with the new playlist
backup_then_write(pf, bk, new) ==
    [playlist_file |-> new,
     backup_file |-> IF pf.state # "missing" THEN pf ELSE bk]

\* how a call ends: the backend gave nothing; the new playlist was saved; writing
\* the backup raised; writing the active document raised
SwapEnds == {"no playlist", "saved", "backup failed", "write failed"}

\* fetch_and_save_backend_playlist lines 117-166 (and the same lines 201-256 of the
\* variant with cleanup); a file that open(..., 'w') has truncated and that was not
\* written completely does not parse
save_backend_playlist(new, end) ==
    LET r == backup_then_write(playlist_file, backup_file, new) IN
    /\ swap.n < MaxSwaps
    /\ swap' = [n |-> swap.n + 1, new |-> new, end |-> end, before |-> playlist_file]
    /\ CASE end = "no playlist" ->
                UNCHANGED <<playlist_file, backup_file>>
         [] end = "saved" ->
                /\ playlist_file' = r.playlist_file
                /\ backup_file' = r.backup_file
         [] end = "backup failed" ->
                /\ playlist_file.state # "missing"
                /\ backup_file' \in {backup_file, CorruptPlaylistFile}
                /\ UNCHANGED playlist_file
         [] end = "write failed" ->
                /\ backup_file' = r.backup_file
                /\ playlist_file' \in {playlist_file, CorruptPlaylistFile}

fetch_and_save_backend_playlist ==
    \E new \in ConvertedDocs, end \in SwapEnds :
        /\ save_backend_playlist(new, end)
        /\ UNCHANGED <<dir, fetchVars, probe, prune, playerVars, pm, downloads, command, srv, bc>>

\* cleanup_old_cache_after_playlist_update(new_version, old_version)
cleanup_skipped(new_version, old_version) ==
    old_version # NoStr /\ new_version = old_version

\* fetch_and_save_backend_playlist_with_cleanup: the same, then
\* cleanup_old_cache_files(dry_run=False) unless the version is the old one
fetch_and_save_backend_playlist_with_cleanup ==
    \E new \in ConvertedDocs, end \in SwapEnds :
        LET old_version == IF playlist_file.state = "ok" THEN playlist_file.version ELSE NoStr
            playlist_files == get_current_playlist_filenames(new)
            cached_files == get_cached_filenames(dir)
            to_delete == files_to_delete(cached_files, playlist_files)
        IN
        /\ save_backend_playlist(new, end)
        /\ IF end = "saved" /\ ~cleanup_skipped(new.version, old_version)
           THEN \E stuck \in SUBSET to_delete :
                  /\ dir' = [q \in DOMAIN dir \ (to_delete \ stuck) |-> dir[q]]
                  /\ prune' = [called |-> TRUE, dry_run |-> FALSE,
                               deleted_files |-> to_delete \ stuck,
                               freed_bytes |-> total_size(dir, to_delete \ stuck),
                               kept_files |-> files_to_keep(cached_files, playlist_files),
                               playlist_files |-> playlist_files,
                               before |-> dir]
           ELSE UNCHANGED <<dir, prune>>
        /\ UNCHANGED <<fetchVars, probe, playerVars, pm, downloads, command, srv, bc>>

\* PlaylistManager.check_backend_playlist_availability (config.BACKEND_ENABLED is
\* True): the attributes afterwards
check_backend_playlist_availability(m, answer) ==
    [m EXCEPT !.backend_available = (answer # NoAnswer), !.last_backend_check = 0]

DefaultSources == {"default_fallback", "default_samples"}

\* PlaylistManager.should_load_default_playlist
should_load_default_playlist(m, pf) ==
    IF m.default_playlist_loaded THEN FALSE
    ELSE IF pf.state = "ok" /\ pf.source = "backend" THEN FALSE
    ELSE IF pf.state = "ok" /\ pf.source \in DefaultSources THEN FALSE
    ELSE m.late /\ (~m.backend_available \/ m.last_backend_check = NoTime)

\* open(config.PLAYLIST_FILE, 'w') and json.dump: the document afterwards; when the
\* write raises, the file is as it was (open failed) or truncated (dump failed)
WriteEnds == {"written", "open failed", "dump failed"}
write_document(pf, new, end) ==
    CASE end = "written" -> new
      [] end = "open failed" -> pf
      [] end = "dump failed" -> CorruptPlaylistFile

\* PlaylistManager.load_default_playlist(use_cloudinary) on the document pf: an
\* exception is logged and False returned
load_default_playlist(m, pf, use_cloudinary, end) ==
    /\ playlist_file' = write_document(pf,
                            IF use_cloudinary THEN get_default_cloudinary_playlist
                            ELSE create_sample_video_playlist, end)
    /\ pm' = IF end = "written"
             THEN [m EXCEPT !.default_playlist_loaded = TRUE,
                            !.current_playlist_source =
                                IF use_cloudinary THEN "default_fallback"
                                ELSE "default_samples",
                            !.returned = "True"]
             ELSE [m EXCEPT !.returned = "False"]

\* PlaylistManager.ensure_playlist_available: a backend playlist that cannot be
\* saved is logged and the call goes on as if there were none
ensure_playlist_available ==
    \E answer \in BackendDocs \cup {NoAnswer}, end1 \in WriteEnds, end2 \in WriteEnds :
        LET m == [check_backend_playlist_availability(pm, answer)
                    EXCEPT !.found = playlist_file.state]
            \* the active document after the attempt to save the backend's playlist
            pf == IF answer # NoAnswer THEN write_document(playlist_file, answer, end1)
                  ELSE playlist_file
        IN
        /\ answer = NoAnswer => end1 = "written"
        /\ IF answer # NoAnswer /\ end1 = "written"
           THEN /\ end2 = "written"
                /\ playlist_file' = pf
                /\ pm' = [m EXCEPT !.current_playlist_source = "backend",
                                   !.default_playlist_loaded = FALSE,
                                   !.returned = "True"]
           ELSE IF should_load_default_playlist(m, pf)
           THEN load_default_playlist(m, pf, TRUE, end2)
           ELSE IF pf.state = "ok" /\ pf.items # <<>>
           THEN /\ end2 = "written"
                /\ pm' = [m EXCEPT !.returned = "True"]
                /\ playlist_file' = pf
           ELSE load_default_playlist(m, pf, FALSE, end2)
        /\ UNCHANGED <<dir, fetchVars, probe, prune, playerVars, backup_file, swap, downloads, command, srv, bc>>

\* default_fallback_delay seconds have gone by since the manager was created
startup_delay_passes ==
    /\ ~pm.late
    /\ pm' = [pm EXCEPT !.late = TRUE]
    /\ UNCHANGED <<dir, fetchVars, probe, pruneVars, playerVars, backup_file, swap, downloads, command, srv, bc>>

\* the active document and the backup when the services start
StoredDocs ==
    {NoPlaylistFile, CorruptPlaylistFile} \cup ConvertedDocs

InitStore ==
    /\ dir \in {c \in PruneCaches : DOMAIN c = {<<"a", "">>, <<"old", "">>}}
    /\ cache0 = dir
    /\ impl = "dm"
    /\ items = <<>>
    /\ max_workers = MAX_CONCURRENT_DOWNLOADS
    /\ tasks = NoTasks
    /\ main = IdleMain
    /\ installs = NoInstalls
    /\ probe = NoProbe
    /\ playlist_file \in StoredDocs
    /\ prune = NoPrune
    /\ NoPlayer
    /\ backup_file \in {NoPlaylistFile} \cup {d \in ConvertedDocs : d.items = <<>>}
    /\ swap = NoSwap
    /\ pm = PlaylistManager
    /\ downloads = <<>>
    /\ command = NoCommand
    /\ srv = NoServer
    /\ bc = BackendClient

NextStore ==
    \/ fetch_and_save_backend_playlist
    \/ fetch_and_save_backend_playlist_with_cleanup
    \/ ensure_playlist_available
    \/ startup_delay_passes

SpecStore == InitStore /\ [][NextStore]_vars

\* a call of fetch_and_save_backend_playlist returns True
Swapped == swap'.n = swap.n + 1 /\ swap'.end = "saved"

\* C26: when a call has saved the new playlist and an active document existed, the
\* active document is the new playlist and the backup document is what the active
\* document was right before the call; this holds for every call of a sequence, and
\* the backup is the one document at the backup path.
C26_BackupIsPriorActive ==
    [][(Swapped /\ playlist_file.state # "missing") =>
            /\ playlist_file' = swap'.new
            /\ backup_file' = playlist_file
      ]_vars

\* C26 witness: the second call of a sequence saved v2 over v1 and the backup is v1,
\* which replaced the backup the first call had made
C26_Witness ==
    /\ swap.n = 2 /\ swap.end = "saved"
    /\ playlist_file = swap.new /\ playlist_file.version = "v2"
    /\ backup_file = swap.before /\ backup_file.state = "ok"
    /\ backup_file.version = "v1" /\ backup_file.items # <<>>

\* C27: when writing the backup copy fails, the call goes on and the active document
\* is overwritten with the new playlist.
C27_BackupFailureDoesNotAbort ==
    [][(swap'.n = swap.n + 1 /\ swap'.end = "backup failed") =>
            playlist_file' = swap'.new]_vars

\* the active document came from the backend / is a default playlist
FromBackend(pf) == pf.state = "ok" /\ pf.source \notin DefaultSources
IsDefault(pf) == pf.state = "ok" /\ pf.source \in DefaultSources

\* C28: once ensure_playlist_available has made a playlist of the backend the active
\* document, no later step replaces it by a default playlist, whether or not the
\* backend answers.
C28_BackendPlaylistIsKept ==
    [][(pm.current_playlist_source = "backend" /\ FromBackend(playlist_file)) =>
            ~IsDefault(playlist_file')]_vars

-----------------------------------------------------------------------------
(* Specification SpecCommand: MediaPlayer.get_player_command on arbitrary    *)
(* file names and "duration" values of a playlist item.  The playlist is a    *)
(* JSON document written as received, so "duration" may be missing, null, an  *)
(* integer, a float (Infinity and NaN included), a boolean or a string.       *)

IMAGE_DISPLAY_DURATION == 10

image_extensions == {".jpg", ".jpeg", ".png", ".gif", ".bmp", ".webp", ".tiff"}
video_extensions == {".mp4", ".avi", ".mkv", ".mov", ".wmv", ".flv", ".webm", ".m4v"}
audio_extensions == {".mp3", ".wav", ".flac", ".aac", ".ogg", ".m4a", ".wma"}

\* the suffixes of the file names tried, and str.lower() on them
Suffixes == {".mp4", ".MP4", ".mkv", ".mp3", ".WAV", ".jpg", ".PNG", ".gif", ".txt", ""}
lower(suffix) ==
    CASE suffix = ".MP4" -> ".mp4"
      [] suffix = ".WAV" -> ".wav"
      [] suffix = ".PNG" -> ".png"
      [] OTHER -> suffix

is_image_file(path) == lower(path.suffix) \in image_extensions
is_video_file(path) == lower(path.suffix) \in video_extensions
is_audio_file(path) == lower(path.suffix) \in audio_extensions

\* a JSON value of "duration": v is the integer, the boolean as 0/1 or the float in
\* tenths; s is the string, or "inf"/"nan" for the floats that are no finite number
Duration(type, v, s) == [type |-> type, v |-> v, s |-> s]
Durations ==
    {Duration("absent", 0, ""), Duration("null", 0, "")}
        \cup {Duration("int", v, "") : v \in {-5, 0, 1, 30, 125}}
        \cup {Duration("float", v, "") : v \in {-15, 0, 5, 25, 300}}
        \cup {Duration("float", 0, s) : s \in {"inf", "nan"}}
        \cup {Duration("bool", v, "") : v \in {0, 1}}
        \cup {Duration("str", 0, s) : s \in {"", "30", "abc"}}

\* item.get("duration"): None for a missing key as for null
get(d) == IF d.type = "absent" THEN Duration("null", 0, "") ELSE d
\* bool(d)
truthy(d) ==
    CASE d.type \in {"absent", "null"} -> FALSE
      [] d.type \in {"int", "bool"} -> d.v # 0
      [] d.type = "float" -> d.s # "" \/ d.v # 0
      [] d.type = "str" -> d.s # ""
\* isinstance(d, (int, float)): bool is a subclass of int
is_int_or_float(d) == d.type \in {"int", "float", "bool"}
\* d > 0, for an int or a float
positive(d) == IF d.type = "float" /\ d.s # "" THEN d.s = "inf" ELSE d.v > 0

Digit(k) == <<"0", "1", "2", "3", "4", "5", "6", "7", "8", "9">>[k + 1]
RECURSIVE str_nat(_)
str_nat(n) == IF n < 10 THEN Digit(n) ELSE str_nat(n \div 10) \o Digit(n % 10)
str_int(n) == IF n < 0 THEN "-" \o str_nat(-n) ELSE str_nat(n)
abs(n) == IF n < 0 THEN -n ELSE n
\* int(d) of a finite value: floats are truncated towards zero
int(d) ==
    IF d.type # "float" THEN d.v
    ELSE IF d.v < 0 THEN -(abs(d.v) \div 10) ELSE d.v \div 10
\* str(d)
str(d) ==
    CASE d.type \in {"absent", "null"} -> "None"
      [] d.type = "int" -> str_int(d.v)
      [] d.type = "bool" -> IF d.v = 1 THEN "True" ELSE "False"
      [] d.type = "str" -> d.s
      [] d.type = "float" ->
            IF d.s # "" THEN d.s
            ELSE (IF d.v < 0 THEN "-" ELSE "") \o str_nat(abs(d.v) \div 10)
                     \o "." \o Digit(abs(d.v) % 10)

\* str(media_path) of config.MEDIA_CACHE_DIR / filename
str_path(path) == "media_cache/" \o path.stem \o path.suffix

\* get_player_command(media_path, item): the argument list, or raised when int()
\* has no value (OverflowError for Infinity)
get_player_command(media_path, item) ==
    IF is_video_file(media_path) \/ is_audio_file(media_path) THEN
        LET cmd == <<"cvlc", "--intf", "dummy", "--quiet", "--no-video-title-show",
                     "--fullscreen", "--no-osd", str_path(media_path)>>
            duration == get(item.duration)
        IN  IF truthy(duration) /\ is_int_or_float(duration) /\ positive(duration)
            THEN IF duration.s = "inf"
                 THEN [cmd |-> <<>>, raised |-> TRUE]
                 ELSE [cmd |-> cmd \o <<"--run-time", str_int(int(duration))>>,
                       raised |-> FALSE]
            ELSE [cmd |-> cmd, raised |-> FALSE]
    ELSE IF is_image_file(media_path) THEN
        LET duration == IF item.duration.type = "absent"
                        THEN Duration("int", IMAGE_DISPLAY_DURATION, "")
                        ELSE item.duration
        IN  [cmd |-> <<"feh", "--fullscreen", "--hide-pointer", "--quiet",
                       "--slideshow-delay", str(duration), str_path(media_path)>>,
             raised |-> FALSE]
    ELSE [cmd |-> <<"cvlc", "--intf", "dummy", "--quiet", str_path(media_path)>>,
          raised |-> FALSE]

call_get_player_command ==
    /\ command.n = 0
    /\ LET r == get_player_command(command.media_path, command.item)
       IN  command' = [command EXCEPT !.n = 1, !.cmd = r.cmd, !.raised = r.raised]
    /\ UNCHANGED <<dir, fetchVars, probe, pruneVars, playerVars, storeVars, downloads, srv, bc>>

InitCommand ==
    /\ dir = <<>>
    /\ cache0 = dir
    /\ impl = "dm"
    /\ items = <<>>
    /\ max_workers = MAX_CONCURRENT_DOWNLOADS
    /\ tasks = NoTasks
    /\ main = IdleMain
    /\ installs = NoInstalls
    /\ probe = NoProbe
    /\ playlist_file = NoPlaylistFile
    /\ prune = NoPrune
    /\ NoPlayer
    /\ backup_file = NoPlaylistFile
    /\ swap = NoSwap
    /\ pm = PlaylistManager
    /\ downloads = <<>>
    /\ command \in {[NoCommand EXCEPT !.media_path = [stem |-> "clip", suffix |-> x],
                                      !.item = [duration |-> d]] :
                        x \in Suffixes, d \in Durations}
    /\ srv = NoServer
    /\ bc = BackendClient

NextCommand == call_get_player_command

SpecCommand == InitCommand /\ [][NextCommand]_vars

\* the argument that follows the option opt in the command, NoStr if there is none
Arg(cmd, opt) ==
    IF \E k \in 1..(Len(cmd) - 1) : cmd[k] = opt
    THEN cmd[(CHOOSE k \in 1..(Len(cmd) - 1) : cmd[k] = opt) + 1]
    ELSE NoStr
Has(cmd, opt) == \E k \in 1..Len(cmd) : cmd[k] = opt

\* a number as Python sees it: an int (True and False included) or a float but NaN
IsNumber(d) == d.type \in {"int", "bool"} \/ (d.type = "float" /\ d.s # "nan")
\* the item gives a duration: the key is there and its value is not null
SpecifiesDuration(d) == d.type \notin {"absent", "null"}

\* C29: a file with a video or audio extension gives cvlc, with "--run-time" followed by
\* int(duration) exactly when the item's duration is a number greater than 0; a file
\* with an image extension gives feh with "--slideshow-delay" followed by the item's
\* duration, or by the configured default when the item gives none.
C29_CommandFollowsDuration ==
    (command.n = 1) =>
        LET path == command.media_path
            d == command.item.duration
            cmd == command.cmd
        IN  /\ (is_video_file(path) \/ is_audio_file(path)) =>
                /\ ~command.raised /\ cmd[1] = "cvlc"
                /\ Has(cmd, "--run-time") <=> (IsNumber(d) /\ positive(d))
                /\ Has(cmd, "--run-time") => Arg(cmd, "--run-time") = str_int(int(d))
            /\ is_image_file(path) =>
                /\ ~command.raised /\ cmd[1] = "feh"
                /\ Arg(cmd, "--slideshow-delay") =
                        IF SpecifiesDuration(d) THEN str(d)
                        ELSE str_int(IMAGE_DISPLAY_DURATION)

-----------------------------------------------------------------------------
(* Specification SpecProgress: a batch of download_manager in a process whose *)
(* module-level ProgressTracker may hold the entry of an earlier download.    *)

\* progress.downloads as earlier batches of the process can have left it
EarlierDownloads ==
    {<<>>,
     [f \in {"a"} |-> [status |-> "completed", total_bytes |-> NChunks,
                       downloaded_bytes |-> NChunks, error |-> NoStr]]}

InitProgress ==
    /\ dir \in BatchCaches
    /\ cache0 = dir
    /\ impl = "dm"
    /\ items = <<>>
    /\ max_workers = MAX_CONCURRENT_DOWNLOADS
    /\ tasks = NoTasks
    /\ main = IdleMain
    /\ installs = NoInstalls
    /\ probe = NoProbe
    /\ playlist_file = NoPlaylistFile
    /\ prune = NoPrune
    /\ NoPlayer
    /\ backup_file = NoPlaylistFile
    /\ swap = NoSwap
    /\ pm = PlaylistManager
    /\ downloads \in EarlierDownloads
    /\ command = NoCommand
    /\ srv = NoServer
    /\ bc = BackendClient

NextProgress ==
    \/ download_playlist_items
    \/ \E i \in DOMAIN tasks : dm_start(i)
    \/ \E i \in DOMAIN tasks : get_ok(i)
    \/ \E i \in DOMAIN tasks : get_fail(i)
    \/ \E i \in DOMAIN tasks : write_chunk(i)
    \/ \E i \in DOMAIN tasks : write_fail(i)
    \/ \E i \in DOMAIN tasks : verify(i)
    \/ \E i \in DOMAIN tasks : install(i)
    \/ \E i \in DOMAIN tasks : install_fail(i)
    \/ \E i \in DOMAIN tasks : dm_finally(i)
    \/ collect

SpecProgress == InitProgress /\ [][NextProgress]_vars

\* the entry of filename was written in this step
Mutated(filename) ==
    /\ filename \in DOMAIN downloads'
    /\ filename \notin DOMAIN downloads \/ downloads'[filename] # downloads[filename]
\* the download attempt i took this step
Steps(i) ==
    /\ i \in DOMAIN tasks /\ i \in DOMAIN tasks'
    /\ tasks'[i].pc # tasks[i].pc \/ tasks'[i].k # tasks[i].k
\* attempt i has called start_download and not yet finish_download
Active(i) == tasks[i].pc \in {"write", "verify", "replace"}
\* attempt i calls start_download in this step
Starts(i) == tasks[i].pc = "get" /\ tasks'[i].pc = "write"

\* C30: the entry of a filename is written only by a download attempt of that filename
\* that calls start_download in this step or has called it and not yet finished; and
\* start_download replaces the whole entry by a new one.
C30_EntryMutatedOnlyWhileActive ==
    [][\A f \in DOMAIN downloads' :
          /\ Mutated(f) =>
                \E i \in DOMAIN tasks :
                    /\ items[i].filename = f /\ Steps(i)
                    /\ Active(i) \/ Starts(i)
          /\ \A i \in DOMAIN tasks :
                (Steps(i) /\ Starts(i) /\ items[i].filename = f) =>
                    downloads'[f] = [status |-> "downloading", total_bytes |-> NChunks,
                                     downloaded_bytes |-> 0, error |-> NoStr]
      ]_vars

-----------------------------------------------------------------------------
(* Claims checked under SpecStore: the playlist manager *)

\* this step is a call of ensure_playlist_available to which the backend gave no playlist
EnsureWithoutAnswer ==
    /\ swap' = swap /\ pm'.late = pm.late /\ pm' # pm
    /\ pm'.last_backend_check # NoTime /\ ~pm'.backend_available

\* C31 as stated: without an active document and without a playlist of the backend,
\* ensure_playlist_available returns True and leaves a default playlist with at least
\* one item, before and after the fallback delay.
C31_DefaultWhenNothing ==
    [][(EnsureWithoutAnswer /\ playlist_file.state = "missing") =>
            /\ pm'.returned = "True"
            /\ IsDefault(playlist_file') /\ playlist_file'.items # <<>>
      ]_vars

\* C31 amended: without an active document and without a playlist of the backend,
\* ensure_playlist_available writes a default playlist, before and after the fallback
\* delay: if the write succeeds it returns True and the active document is a default
\* playlist with at least one item; if the write raises it returns False and no
\* parsable document is left.
C31_DefaultWhenNothingUnlessWriteFails ==
    [][(EnsureWithoutAnswer /\ playlist_file.state = "missing") =>
            IF playlist_file'.state = "ok"
            THEN /\ pm'.returned = "True"
                 /\ IsDefault(playlist_file') /\ playlist_file'.items # <<>>
            ELSE pm'.returned = "False"
      ]_vars

C31_Witness ==
    /\ pm.found = "missing" /\ pm.returned = "True"
    /\ ~pm.late /\ ~pm.backend_available /\ pm.last_backend_check # NoTime
    /\ playlist_file = create_sample_video_playlist

-----------------------------------------------------------------------------
(* Specification SpecReload: the supervisor with a playlist loaded, while the  *)
(* active document is removed or is read in the middle of an in-place write.  *)

InitReload ==
    /\ dir \in PlayerCaches
    /\ cache0 = dir
    /\ impl = "dm"
    /\ items = <<>>
    /\ max_workers = MAX_CONCURRENT_DOWNLOADS
    /\ tasks = NoTasks
    /\ main = IdleMain
    /\ installs = NoInstalls
    /\ probe = NoProbe
    /\ playlist_file \in {d \in PlayerDocs : d.version = "v1" /\ d.loop}
    /\ prune = NoPrune
    /\ mp = MediaPlayer
    /\ thr = [player |-> Thread("top"), main |-> Thread("start")]
    /\ procs = <<>>
    /\ clock = 0
    /\ feed \in {<<>>, <<NoPlaylistFile>>, <<CorruptPlaylistFile>>}
    /\ playback_state = update_playback_state(MediaPlayer, "starting", "Media player daemon starting")
    /\ hist = NoHist
    /\ NoStore

SpecReload == InitReload /\ [][NextPlayer]_vars

\* this step is playback_loop calling load_playlist
ReloadStep == thr.player.pc = "top" /\ thr'.player.pc # "top" /\ ~mp.should_stop

\* C32: load_playlist on a missing or unparsable active document returns False (the
\* loop goes on without stop_current_player and without an exception) and changes
\* none of playlist, playlist_version, loop_enabled and current_index.
C32_UnreadableKeepsPlaylist ==
    [][(ReloadStep /\ playlist_file.state # "ok") =>
            /\ thr'.player.pc = "have"
            /\ mp'.playlist = mp.playlist
            /\ mp'.playlist_version = mp.playlist_version
            /\ mp'.loop_enabled = mp.loop_enabled
            /\ mp'.current_index = mp.current_index
      ]_vars

C32_Witness ==
    /\ hist.unread /\ thr.player.pc = "have" /\ playlist_file.state # "ok"
    /\ mp.playlist = <<PlayItem("b")>> /\ mp.playlist_version = "v1"
    /\ mp.current_index = 1

-----------------------------------------------------------------------------
(* Specification SpecServer: the API server's POST /playlist handler, the      *)
(* background tasks it starts and the playlist worker of the backend client.   *)
(* The handler is a coroutine without await: it runs from its first line to    *)
(* its response without another handler in between; a background task runs in  *)
(* a worker thread after the response has been sent.  The cache cleanup is a    *)
(* script of its own and runs whenever it is started.                           *)

\* the playlists that are posted or that the backend holds
PostDocs == {StoreDoc(v, <<PlayItem("a")>>, NoStr) : v \in Versions}

\* the slot of the next request
next_request == CHOOSE r \in 1..MaxPosts : srv.req[r].pc = "none" /\
                    \A q \in 1..(r - 1) : srv.req[q].pc # "none"
can_post == \E r \in 1..MaxPosts : srv.req[r].pc = "none"

\* a plausible slip: the handler itself marks the update as running
update_playlist_sets_flag(s, r, doc, valid) ==
    IF ~valid THEN [s EXCEPT !.req[r].pc = "invalid"]
    ELSE IF s.updating THEN [s EXCEPT !.req[r].pc = "rejected"]
    ELSE [s EXCEPT !.req[r].pc = "queued", !.req[r].doc = doc, !.updating = TRUE]

\* update_playlist: 400 for a playlist that fails validation, 409 while
\* playlist_update_status["updating"], else the task is added and 200 answered
update_playlist(s, r, doc, valid) ==
    IF ~valid THEN [s EXCEPT !.req[r].pc = "invalid"]
    ELSE IF s.updating THEN [s EXCEPT !.req[r].pc = "rejected"]
    ELSE [s EXCEPT !.req[r].pc = "queued", !.req[r].doc = doc]

\* a client posts a playlist
post_playlist ==
    /\ can_post
    /\ \E doc \in PostDocs, valid \in BOOLEAN :
          srv' = update_playlist(srv, next_request, doc, valid)
    /\ UNCHANGED <<dir, fetchVars, probe, pruneVars, playerVars, storeVars, downloads, command, bc>>

\* background_download_task, lines 70-72: the task starts
task_start(r) ==
    /\ srv.req[r].pc = "queued"
    /\ srv' = [srv EXCEPT !.req[r].pc = "started", !.updating = TRUE, !.last_error = NoStr]
    /\ UNCHANGED <<dir, fetchVars, probe, pruneVars, playerVars, storeVars, downloads, command, bc>>

\* line 75: open(config.PLAYLIST_FILE, 'w') truncates the document; when it raises
\* the error is kept and the finally clause clears the flag
task_open(r) ==
    /\ srv.req[r].pc = "started"
    /\ \E opened \in BOOLEAN :
          IF opened
          THEN /\ playlist_file' = CorruptPlaylistFile
               /\ srv' = [srv EXCEPT !.req[r].pc = "opened", !.req[r].prev = playlist_file]
          ELSE /\ srv' = [srv EXCEPT !.req[r].pc = "open_failed", !.updating = FALSE,
                                     !.last_error = "open"]
               /\ UNCHANGED playlist_file
    /\ UNCHANGED <<dir, fetchVars, probe, prune, playerVars, storeVars, downloads, command, bc>>

\* line 76: json.dump(playlist_data, f) and the file is closed
task_dump(r) ==
    /\ srv.req[r].pc = "opened"
    /\ playlist_file' = srv.req[r].doc
    /\ srv' = [srv EXCEPT !.req[r].pc = "written"]
    /\ UNCHANGED <<dir, fetchVars, probe, prune, playerVars, storeVars, downloads, command, bc>>

\* a plausible slip: the batch is started without taking _download_lock
lock_free_always(s) == TRUE

\* threading.Lock.acquire returns
lock_free(s) == s.lock = 0

\* update_cache_for_playlist: with _download_lock the document is read and parsed;
\* then download_playlist_items(data) runs, or the exception is logged, the error
\* dict returned and the task ends with it (lines 86-88, 97-99)
update_cache_for_playlist(r) ==
    /\ srv.req[r].pc = "written"
    /\ lock_free(srv)
    /\ IF playlist_file.state = "ok"
       THEN srv' = [srv EXCEPT !.lock = r, !.req[r].pc = "batch", !.req[r].ran = TRUE,
                               !.req[r].doc = playlist_file]
       ELSE srv' = [srv EXCEPT !.req[r].pc = "read_failed", !.updating = FALSE,
                               !.last_error = "read"]
    /\ UNCHANGED <<dir, fetchVars, probe, pruneVars, playerVars, storeVars, downloads, command, bc>>

\* download_playlist_items returns (each file was downloaded or not), the lock is
\* released, the task writes "playlist_updated" and clears the flag
task_batch_end(r) ==
    /\ srv.req[r].pc = "batch"
    /\ \E got \in SUBSET get_current_playlist_filenames(srv.req[r].doc) :
          dir' = [q \in DOMAIN dir \cup got |->
                    IF q \in DOMAIN dir THEN dir[q] ELSE File(Body, TRUE)]
    /\ srv' = [srv EXCEPT !.lock = IF @ = r THEN 0 ELSE @,
                          !.req[r].pc = "done", !.updating = FALSE]
    /\ playback_state' = pi_server_update_playback_state("playlist_updated")
    /\ UNCHANGED <<fetchVars, probe, pruneVars, mp, thr, procs, clock, feed, hist,
                   storeVars, downloads, command, bc>>

\* _playlist_worker, one poll: the backend's playlist is fetched; a version other
\* than last_playlist_version is recorded and posted to the local endpoint by
\* _update_local_playlist, which logs whatever comes back
playlist_worker ==
    /\ can_post
    /\ \E answer \in PostDocs \cup {NoAnswer}, reachable \in BOOLEAN :
          IF answer = NoAnswer \/ answer.version = bc.last_playlist_version
          THEN /\ reachable
               /\ UNCHANGED <<srv, bc>>
          ELSE LET s == update_playlist(srv, next_request, answer, TRUE) IN
               /\ srv' = IF reachable THEN s ELSE srv
               /\ bc' = [last_playlist_version |-> answer.version,
                         handoff |-> IF reachable /\ s.req[next_request].pc = "queued"
                                     THEN "ok" ELSE "failed"]
    /\ UNCHANGED <<dir, fetchVars, probe, pruneVars, playerVars, storeVars, downloads, command>>

\* the cache when the server starts: empty, or holding the file of the playlists
ServerCaches == {<<>>, [path \in {get_media_path("a")} |-> File(Body, TRUE)]}

InitServer ==
    /\ dir \in ServerCaches
    /\ cache0 = dir
    /\ impl = "md"
    /\ items = <<>>
    /\ max_workers = MAX_CONCURRENT_DOWNLOADS
    /\ tasks = NoTasks
    /\ main = IdleMain
    /\ installs = NoInstalls
    /\ probe = NoProbe
    /\ playlist_file \in {NoPlaylistFile} \cup PostDocs
    /\ prune = NoPrune
    /\ NoPlayer
    /\ NoStore

NextServer ==
    \/ post_playlist
    \/ playlist_worker
    \/ \E r \in 1..MaxPosts : task_start(r)
    \/ \E r \in 1..MaxPosts : task_open(r)
    \/ \E r \in 1..MaxPosts : task_dump(r)
    \/ \E r \in 1..MaxPosts : update_cache_for_playlist(r)
    \/ \E r \in 1..MaxPosts : task_batch_end(r)
    \/ cleanup_old_cache_files

SpecServer == InitServer /\ [][NextServer]_vars

-----------------------------------------------------------------------------
(* Claims checked under SpecServer *)

\* the tasks that are inside download_playlist_items
InBatch == {r \in 1..MaxPosts : srv.req[r].pc = "batch"}

\* C33: no two callers of update_cache_for_playlist are inside download_playlist_items
\* at the same time, and no caller comes back from update_cache_for_playlist without
\* its batch having run.
C33_BatchesExclusiveAndRun ==
    /\ Cardinality(InBatch) <= 1
    /\ \A r \in 1..MaxPosts : srv.req[r].pc # "read_failed"

\* the tasks that were accepted (200) and have not finished
Unfinished ==
    {r \in 1..MaxPosts : srv.req[r].pc \in {"queued", "started", "opened", "written", "batch"}}

\* C34: while an accepted update task has not finished the "updating" flag is true,
\* and no second task is accepted (a further POST gets 409, starts no task and
\* leaves the active document alone).
C34_OneUpdateAtATime ==
    /\ Unfinished # {} => srv.updating
    /\ Cardinality(Unfinished) <= 1

\* C40: the playlist worker holds a version as seen (last_playlist_version) only if
\* the hand-off of that version to the local endpoint succeeded, so that a version
\* whose hand-off failed is handed off again by a later poll.
C40_SeenOnlyAfterHandoff ==
    bc.last_playlist_version # NoStr => bc.handoff = "ok"

\* ---------------------------------------------------------------------------
\* The walk of the supervisor through its playlist
\* ---------------------------------------------------------------------------

\* C35: in every state of the supervisor 0 <= current_index <= len(playlist), and
\* the item playlist[current_index] is looked up (the loop is about to play it)
\* only when current_index < len(playlist), whatever reloads, completions and
\* wrap-arounds came before.
C35_IndexWithinPlaylist ==
    /\ mp.current_index \in 0..Len(mp.playlist)
    /\ thr.player.pc = "play" => mp.current_index < Len(mp.playlist)

\* a reload replaced the playlist by one that is not longer than the index the
\* walk had reached, and the loop went on to the step after the reload
C35_Witness ==
    /\ hist.changed /\ hist.from >= 1
    /\ Len(mp.playlist) <= hist.from
    /\ thr.player.pc \in {"have", "play"}

\* the external display processes that are alive
Alive == {p \in DOMAIN procs : procs[p].alive}

\* C36: at any moment at most one external display process spawned by the
\* supervisor (media player or default screen) is alive.
C36_OneDisplayProcess == Cardinality(Alive) <= 1

\* the processes that are alive and were not sent the kill signal
NotKilled == {p \in Alive : procs[p].sig # "kill"}

\* C36 (amended): at any moment at most one display process is alive that the
\* two-phase stop has not given up on: every other process that is still alive
\* was sent the kill signal and did not confirm its exit within the bounded wait.
C36_OneDisplayProcessNotKilled == Cardinality(NotKilled) <= 1

\* a process was spawned while the one before it, killed by the two-phase stop,
\* had not yet exited
C36_Witness ==
    /\ Cardinality(Alive) = 2
    /\ alive(procs, mp.current_process)
    /\ \E p \in Alive : procs[p].sig = "kill" /\ p # mp.current_process

\* C39: the supervisor is waiting for a playlist or showing the default screen
\* only while the loaded playlist has zero items: the "waiting" and
\* "showing_default" states are written and the default-screen process is spawned
\* only then, so a non-empty playlist none of whose files is cached is walked and
\* wrapped, item after item skipped, without the default screen.
C39_DefaultOnlyWithoutItems ==
    /\ [](thr.player.pc \in {"show", "dwell"} => mp.playlist = <<>>)
    /\ [][(\/ /\ playback_state' # playback_state
              /\ playback_state'.status \in {"waiting", "showing_default"}
           \/ \E p \in DOMAIN procs' \ DOMAIN procs : procs'[p].kind = "default")
          => mp.playlist = <<>>]_vars

\* a looping playlist with items, none of them cached: the walk skipped every
\* item, wrapped, and is about to try the first item again
C39_Witness ==
    /\ mp.playlist # <<>> /\ mp.loop_enabled
    /\ \A i \in DOMAIN mp.playlist :
          /\ mp.playlist[i].filename \in Filenames
          /\ ~exists(dir, get_media_path(mp.playlist[i].filename))
    /\ hist.skipped /\ hist.last_played = NoIndex
    /\ thr.player.pc = "play" /\ mp.current_index = 0

\* ---------------------------------------------------------------------------
\* Cleanup against a playlist document that cannot be read
\* ---------------------------------------------------------------------------

\* a cleanup that deletes has run and PLAYLIST_FILE is missing or unparsable
PrunedUnread == prune.called /\ ~prune.dry_run /\ playlist_file.state # "ok"

\* the files whose unlink raised: "Error deleting ..." is printed for each
delete_errors ==
    files_to_delete(get_cached_filenames(prune.before), prune.playlist_files)
        \ prune.deleted_files

\* C37: with the playlist document missing or unparsable, cleanup takes the set of
\* referenced filenames as empty and deletes every regular file of the cache
\* directory except .gitkeep, reporting no error.
C37_UnreadableDocEmptiesCache ==
    PrunedUnread =>
        /\ prune.playlist_files = {}
        /\ DOMAIN dir = DOMAIN prune.before \cap {GitKeep}
        /\ delete_errors = {}

\* C37 (amended): with the playlist document missing or unparsable, cleanup takes
\* the set of referenced filenames as empty and tries to delete every regular file
\* of the cache directory except .gitkeep: what remains is .gitkeep and the files
\* whose unlink raised, which are printed and left out of deleted_files.
C37_UnreadableDocSelectsWholeCache ==
    PrunedUnread =>
        /\ prune.playlist_files = {}
        /\ prune.kept_files = {}
        /\ prune.deleted_files \cup delete_errors = DOMAIN prune.before \ {GitKeep}
        /\ DOMAIN dir = DOMAIN prune.before \ prune.deleted_files
        /\ GitKeep \in DOMAIN prune.before => GitKeep \in DOMAIN dir

\* cleanup ran against an unreadable document and a cache that held .gitkeep, a
\* media file and a temp file; only .gitkeep is left
C37_Witness ==
    /\ PrunedUnread
    /\ {GitKeep, <<"a", "">>, <<"a", ".tmp">>} \subseteq DOMAIN prune.before
    /\ DOMAIN dir = {GitKeep}

\* ---------------------------------------------------------------------------
\* Cleanup while the playlist document is being overwritten
\* ---------------------------------------------------------------------------

\* the tasks that have opened the document for writing and not yet written it,
\* over a document that could be read
Overwriting == {r \in 1..MaxPosts : srv.req[r].pc = "opened" /\ srv.req[r].prev.state = "ok"}

\* C38: a cleanup pass that runs while the playlist document is being overwritten
\* deletes no cached file that both the old and the new playlist refer to.
C38_PruneSparesSharedFiles ==
    [][prune' # prune /\ ~prune'.dry_run =>
        \A r \in Overwriting :
            prune'.deleted_files
                \cap get_current_playlist_filenames(srv.req[r].prev)
                \cap get_current_playlist_filenames(srv.req[r].doc) = {}]_vars

====
